---------------------------- MODULE Spec2Model ----------------------------
(***************************************************************************)
(* Model of the product-search core of the fashion recommender:            *)
(*   - services/browser_pool.py        (BrowserPool, ContextPool)          *)
(*   - services/link_verification_agent.py (batch verification tasks)      *)
(*   - services/product_search_service.py  (HybridProductSearch)           *)
(*   - services/link_cache.py          (LinkVerificationCache)             *)
(* Each component has its own specification (SpecPool, SpecSearch, ...);   *)
(* the variables of the other components stay at their initial values.     *)
(***************************************************************************)
EXTENDS Integers, Sequences, FiniteSets, TLC

(***************************************************************************)
(* Bounds of the model.                                                    *)
(***************************************************************************)
\* BrowserConfig.pool_size and contexts_per_browser (3 and 5 by default),
\* scaled down so that full load is reached with few tasks.
PoolSize == 2
ContextsPerBrowser == 1
\* Largest batch handed to batch_verify_products.
MaxProducts == 3

\* LinkVerificationAgent(max_retries=2)
max_retries == 2

(***************************************************************************)
(* State of the browser pool and of the verification agent.                *)
(***************************************************************************)
VARIABLES
    initialized,        \* BrowserPool._initialized
    round_robin_index,  \* BrowserPool._round_robin_index
    browsers,           \* len(BrowserPool._browsers)
    context_pools,      \* BrowserPool._context_pools: the queue of each ContextPool
    global_pool,        \* module global _browser_pool is not None
    agent_pool,         \* LinkVerificationAgent._browser_pool is set
    batch_pc,           \* position of batch_verify_products
    pc,                 \* position of each _verify_with_pool coroutine
    init_i,             \* loop counter of a coroutine inside BrowserPool.initialize
    context,            \* local `context` of each _verify_with_pool
    browser_index,      \* local `browser_index` of each _verify_with_pool
    attempt,            \* loop counter of the retry loop
    leased              \* contexts taken from a queue and not put back (history)

poolVars == <<initialized, round_robin_index, browsers, context_pools, global_pool,
              agent_pool, batch_pc, pc, init_i, context, browser_index,
              attempt, leased>>

(***************************************************************************)
(* State of HybridProductSearch and of its LinkVerificationCache.          *)
(***************************************************************************)
VARIABLES
    enabled,            \* sources whose enable flag __init__ set
    enable_link_verification, \* HybridProductSearch.enable_link_verification
    failed_sources,     \* HybridProductSearch._failed_sources
    cache_client,       \* LinkVerificationCache._client is not None
    cache,              \* verification entries held by Redis, by URL
    call_pc,            \* position of search_multi_source
    call_args,          \* arguments k and retailers_allowlist of the call
    started,            \* sources for which the call built a task
    results,            \* outcome of each task handed to asyncio.gather
    returned,           \* list returned by the last call
    raised,             \* the last call ended with an exception
    path,               \* branch of the verification block taken by the last call (history)
    over_cap_dropped,   \* URLs removed by the price filter in the last call (history)
    verified_ok,        \* URLs some call has verified successfully (history)
    returned_verified,  \* tracked products some call returned after verification (history)
    reverified          \* URLs the last call sent to the verifier although an earlier call
                        \* had verified them successfully (history)

searchVars == <<enabled, enable_link_verification, failed_sources, cache_client,
                cache, call_pc, call_args, started, results, returned, raised,
                path, over_cap_dropped, verified_ok, returned_verified, reverified>>

(***************************************************************************)
(* Input and output of one application of _deduplicate_products.           *)
(***************************************************************************)
VARIABLES
    dedup_pc,           \* "input" before the application, "done" after
    dedup_in,           \* argument `products`
    dedup_out           \* returned list `unique`

dedupVars == <<dedup_pc, dedup_in, dedup_out>>

(***************************************************************************)
(* LinkVerificationCache used on its own (with cache_client and cache).    *)
(***************************************************************************)
VARIABLES
    deadline,           \* seconds left of the TTL asked for at the last write of a URL (history)
    expired,            \* URLs whose last written entry has outlived its TTL (history)
    last_read,          \* URLs and result of the last get_cached_verification or get_batch
    written,            \* per URL, the product of the last cache_verification that returned True (history)
    invalidated         \* URLs whose invalidate_cache returned True, no write since (history)

cacheVars == <<deadline, expired, last_read, written, invalidated>>

(***************************************************************************)
(* State of OpenSERPManager and of the aggregator process it supervises.   *)
(***************************************************************************)
VARIABLES
    is_running,         \* OpenSERPManager.is_running
    restart_count,      \* OpenSERPManager.restart_count
    process,            \* OpenSERPManager.process: "none", or what the Popen it refers to is doing
    orphan,             \* a process the supervisor spawned and holds no handle of any more
    start_pc,           \* position of each caller's start() call
    via_ensure,         \* the caller's start() was called by ensure_manager_started
    manager_started,    \* module global _manager_started
    stop_pc,            \* position of a stop() or restart() call
    manual_restart,     \* the stop() in progress was called by restart()
    monitor_pc,         \* position of each _monitor_health task
    monitor_task,       \* OpenSERPManager._monitor_task: 0 for None, or the task
    consecutive_failures, \* local of each _monitor_health task
    attempts,           \* restarts attempted since the last start confirmed ready (history)
    gave_up,            \* the monitor has left its loop over an exhausted budget (history)
    died,               \* the process exited under the monitor, no passing check since (history)
    stopped             \* stop() has returned with no start() in progress, none called since (history)

supervisorVars == <<is_running, restart_count, process, orphan, start_pc, via_ensure,
                    manager_started, stop_pc, manual_restart, monitor_pc, monitor_task,
                    consecutive_failures, attempts, gave_up, died, stopped>>

(***************************************************************************)
(* State of an OpenSERPClient and of the search_products calls on it.      *)
(***************************************************************************)
VARIABLES
    semaphore,          \* value of OpenSERPClient._semaphore
    client_pc,          \* position of each caller of search_products
    client_attempt,     \* `attempt` of each caller's retry loop
    since_last,         \* seconds since _last_request_time, counted up to request_delay
    sleep_left,         \* seconds left of each caller's asyncio.sleep
    client_call         \* per caller: requests sent by the call, and what it returned (history)

clientVars == <<semaphore, client_pc, client_attempt, since_last, sleep_left, client_call>>

(***************************************************************************)
(* State of one _search_custom_pipeline call.                              *)
(***************************************************************************)
VARIABLES
    pipe_pc,            \* the stage the call is waiting for
    pipe_candidates,    \* Stage A: what the harvester returned
    required_brand,     \* filters.get("brand")
    pipe_max_price,     \* max_price
    prefiltered,        \* Stage B: what filter_batch returned
    api_urls,           \* the URL batch handed to check_batch
    api_from,           \* for each of them, the candidate it stems from (history)
    api_verified,       \* Stage C: what check_batch returned
    browser_urls,       \* the URL batch handed to verify_batch
    browser_from,       \* for each of them, the candidate it stems from (history)
    all_verified,       \* api_products + browser_verified_products
    final_products      \* what the call returns

pipelineVars == <<pipe_pc, pipe_candidates, required_brand, pipe_max_price, prefiltered, api_urls,
                  api_from, api_verified, browser_urls, browser_from, all_verified,
                  final_products>>

(***************************************************************************)
(* One application of _rank_products to two candidates.                    *)
(***************************************************************************)
VARIABLES
    rank_pc,            \* "input" before the call, "ranked" after it
    rank_budget,        \* the budget dict of the call
    rank_in,            \* the products handed to _rank_products
    rank_out,           \* the list it returns
    rank_scores         \* the score it computed for each product of rank_in (history)

rankVars == <<rank_pc, rank_budget, rank_in, rank_out, rank_scores>>


(***************************************************************************)
(* HTTPPreFilter.filter_batch on one candidate URL: pc ("input", "checked" *)
(* after _check_single, "filtered" after the loop of filter_batch),        *)
(* fetched (what client.get(url) produces), required_brand and max_price   *)
(* (the arguments), details (the ProductDetails of the candidate), passed  *)
(* (whether the candidate is in the list filter_batch returns).            *)
(***************************************************************************)
VARIABLES filter_call

prefilterVars == <<filter_call>>

(***************************************************************************)
(* One LinkVerificationAgent.verify_product_availability call: pc          *)
(* ("input", "loaded" after page.goto, "done" when the call has returned), *)
(* url, expected_price (in cents), context (whether a browser context was  *)
(* passed), site (what the browser finds at the URL), retailer_pattern     *)
(* (detect_retailer(url)), page_checks (the dict _perform_page_checks      *)
(* returned), result (the VerificationResult returned).                    *)
(***************************************************************************)
VARIABLES verify_call

verifyVars == <<verify_call>>

(***************************************************************************)
(* The link-verification step of search_multi_source on a long list: pc    *)
(* ("input", "returned"), all_products (as the sources delivered it),      *)
(* cache (the entries of the connected cache), args (k and                 *)
(* retailers_allowlist), products_to_verify and valid (is_valid of the     *)
(* result for each of them), path (how the step ended), returned (what the *)
(* call returned).                                                         *)
(***************************************************************************)
VARIABLES search_step

stepVars == <<search_step>>

vars == <<poolVars, searchVars, dedupVars, cacheVars, supervisorVars, clientVars, pipelineVars, rankVars, prefilterVars, verifyVars, stepVars>>

\* What the actions of one component leave unchanged.
outsidePool == <<searchVars, dedupVars, cacheVars, supervisorVars, clientVars, pipelineVars, rankVars, prefilterVars, verifyVars, stepVars>>

outsideSearch == <<poolVars, dedupVars, cacheVars, supervisorVars, clientVars, pipelineVars, rankVars, prefilterVars, verifyVars, stepVars>>

outsideDedup == <<poolVars, searchVars, cacheVars, supervisorVars, clientVars, pipelineVars, rankVars, prefilterVars, verifyVars, stepVars>>

outsideCache == <<poolVars, dedupVars, stepVars, verifyVars, prefilterVars, rankVars, pipelineVars, clientVars, supervisorVars, enabled, enable_link_verification,
                  failed_sources, call_pc, call_args, started, results, returned,
                  raised, path, over_cap_dropped, verified_ok, returned_verified, reverified>>

outsideSupervisor == <<poolVars, searchVars, dedupVars, cacheVars, clientVars, pipelineVars, rankVars, prefilterVars, verifyVars, stepVars>>

outsideClient == <<poolVars, searchVars, dedupVars, cacheVars, supervisorVars, pipelineVars, rankVars, prefilterVars, verifyVars, stepVars>>

outsidePipeline == <<poolVars, searchVars, dedupVars, cacheVars, supervisorVars, clientVars, rankVars, prefilterVars, verifyVars, stepVars>>

outsideRank == <<poolVars, searchVars, dedupVars, cacheVars, supervisorVars, clientVars, pipelineVars, prefilterVars, verifyVars, stepVars>>

outsidePrefilter == <<poolVars, searchVars, dedupVars, cacheVars, supervisorVars, clientVars, pipelineVars, rankVars, verifyVars, stepVars>>

outsideVerify == <<poolVars, searchVars, dedupVars, cacheVars, supervisorVars, clientVars, pipelineVars, rankVars, prefilterVars, stepVars>>

outsideStep == <<poolVars, searchVars, dedupVars, cacheVars, supervisorVars, clientVars, pipelineVars, rankVars, prefilterVars, verifyVars>>

Tasks == 1..MaxProducts

\* A context is named by the position of its ContextPool in _context_pools
\* and its number inside that pool.
NoContext == <<0, 0>>

\* ContextPool.initialize: the queue of a new pool at position p.
NewContextQueue(p) == [j \in 1..ContextsPerBrowser |-> <<p, j>>]

\* BrowserPool.initialize run to completion on a constructed pool.
InitializedPools == [p \in 1..PoolSize |-> NewContextQueue(p)]

\* asyncio.Queue.get as used by ContextPool.acquire: a context when the
\* queue holds one, otherwise the caller waits.
ContextPoolAcquire_Grow(q, p) ==
    IF q # <<>>
    THEN [got |-> TRUE, context |-> Head(q), rest |-> Tail(q)]
    ELSE [got |-> TRUE, context |-> <<p, ContextsPerBrowser + 1>>, rest |-> q]

ContextPoolAcquire_Peek(q, p) ==
    IF q # <<>>
    THEN [got |-> TRUE, context |-> Head(q), rest |-> q]
    ELSE [got |-> FALSE, context |-> NoContext, rest |-> q]

ContextPoolAcquire(q, p) ==
    IF q # <<>>
    THEN [got |-> TRUE, context |-> Head(q), rest |-> Tail(q)]
    ELSE [got |-> FALSE, context |-> NoContext, rest |-> q]

PoolInit ==
    /\ initialized = FALSE
    /\ round_robin_index = 0
    /\ browsers = 0
    /\ context_pools = <<>>
    /\ global_pool = FALSE
    /\ agent_pool = FALSE
    /\ batch_pc = "idle"
    /\ pc = [t \in Tasks |-> "none"]
    /\ init_i = [t \in Tasks |-> 0]
    /\ context = [t \in Tasks |-> NoContext]
    /\ browser_index = [t \in Tasks |-> 0]
    /\ attempt = [t \in Tasks |-> 0]
    /\ leased = {}

\* batch_verify_products up to asyncio.gather: an empty batch returns at
\* once; otherwise the agent fetches the pool (get_browser_pool creates and
\* initializes the global pool under _pool_lock when there is none) and
\* starts one _verify_with_pool per product.
BatchStart(n) ==
    /\ batch_pc \in {"idle", "returned"}
    /\ init_i' = [t \in Tasks |-> 0]
    /\ context' = [t \in Tasks |-> NoContext]
    /\ browser_index' = [t \in Tasks |-> 0]
    /\ attempt' = [t \in Tasks |-> 0]
    /\ IF n = 0
       THEN /\ batch_pc' = "returned"
            /\ pc' = [t \in Tasks |-> "none"]
            /\ UNCHANGED <<initialized, browsers, context_pools, global_pool, agent_pool>>
       ELSE /\ batch_pc' = "running"
            /\ pc' = [t \in Tasks |-> IF t <= n THEN "start" ELSE "none"]
            /\ agent_pool' = TRUE
            /\ IF ~agent_pool /\ ~global_pool
               THEN /\ global_pool' = TRUE
                    /\ initialized' = TRUE
                    /\ browsers' = browsers + PoolSize
                    /\ context_pools' = context_pools \o InitializedPools
               ELSE UNCHANGED <<initialized, browsers, context_pools, global_pool>>
    /\ UNCHANGED <<round_robin_index, leased>>
    /\ UNCHANGED outsidePool

\* BrowserPool.acquire_context from the round-robin step on, with the
\* pools as they are at that point: no suspension happens between the
\* index update and Queue.get when the queue holds a context.
RoundRobinGet(t, pools) ==
    LET b == round_robin_index
        r == ContextPoolAcquire(pools[b + 1], b + 1)
    IN  /\ round_robin_index' = (b + 1) % PoolSize
        /\ browser_index' = [browser_index EXCEPT ![t] = b]
        /\ context_pools' = [pools EXCEPT ![b + 1] = r.rest]
        /\ IF r.got
           THEN /\ context' = [context EXCEPT ![t] = r.context]
                /\ leased' = leased \cup {r.context}
                /\ pc' = [pc EXCEPT ![t] = "verifying"]
           ELSE /\ pc' = [pc EXCEPT ![t] = "waiting"]
                /\ UNCHANGED <<context, leased>>

\* _verify_with_pool calls acquire_context: an initialized pool goes on to
\* the round-robin step, an uninitialized one enters BrowserPool.initialize.
AcquireContext(t) ==
    /\ pc[t] = "start"
    /\ IF initialized
       THEN /\ RoundRobinGet(t, context_pools)
            /\ UNCHANGED <<init_i>>
       ELSE /\ pc' = [pc EXCEPT ![t] = "init_launch"]
            /\ init_i' = [init_i EXCEPT ![t] = 0]
            /\ UNCHANGED <<round_robin_index, browser_index, context_pools, context, leased>>
    /\ UNCHANGED <<initialized, browsers, global_pool, agent_pool, batch_pc,
                   attempt>>
    /\ UNCHANGED outsidePool

\* BrowserPool.initialize, one loop iteration, first half: chromium.launch
\* returned and the browser is appended.
InitLaunch(t) ==
    /\ pc[t] = "init_launch"
    /\ browsers' = browsers + 1
    /\ pc' = [pc EXCEPT ![t] = "init_ctx"]
    /\ UNCHANGED <<initialized, round_robin_index, context_pools, global_pool, agent_pool,
                   batch_pc, init_i, context, browser_index, attempt, leased>>
    /\ UNCHANGED outsidePool

\* BrowserPool.initialize, second half of an iteration: the new ContextPool
\* is initialized and appended; after the last iteration _initialized is
\* set and acquire_context continues.
InitContextPool(t) ==
    /\ pc[t] = "init_ctx"
    /\ LET pools == Append(context_pools, NewContextQueue(Len(context_pools) + 1))
       IN  IF init_i[t] + 1 < PoolSize
           THEN /\ context_pools' = pools
                /\ init_i' = [init_i EXCEPT ![t] = @ + 1]
                /\ pc' = [pc EXCEPT ![t] = "init_launch"]
                /\ UNCHANGED <<initialized, round_robin_index, browser_index, context,
                               leased>>
           ELSE /\ initialized' = TRUE
                /\ init_i' = [init_i EXCEPT ![t] = @ + 1]
                /\ RoundRobinGet(t, pools)
    /\ UNCHANGED <<browsers, global_pool, agent_pool, batch_pc, attempt>>
    /\ UNCHANGED outsidePool

\* A coroutine waiting in Queue.get is resumed once its queue holds a
\* context.
QueueGet(t) ==
    /\ pc[t] = "waiting"
    /\ LET b == browser_index[t]
           r == ContextPoolAcquire(context_pools[b + 1], b + 1)
       IN  /\ r.got
           /\ context_pools' = [context_pools EXCEPT ![b + 1] = r.rest]
           /\ context' = [context EXCEPT ![t] = r.context]
           /\ leased' = leased \cup {r.context}
           /\ pc' = [pc EXCEPT ![t] = "verifying"]
    /\ UNCHANGED <<initialized, round_robin_index, browsers, global_pool, agent_pool,
                   batch_pc, init_i, browser_index, attempt>>
    /\ UNCHANGED outsidePool

\* Outcomes of one verify_product_availability call inside the retry loop:
\* a valid result, an invalid result, an Exception, or a BaseException
\* (cancellation) that `except Exception` does not catch.
Outcomes == {"valid", "invalid", "error", "cancelled"}

\* One iteration of the retry loop of _verify_with_pool: a valid result or
\* an uncaught exception leaves the loop, so does the last attempt; any
\* other outcome is retried. The VerificationResult itself is no state of
\* the pool.
VerifyAttempt(t) ==
    /\ pc[t] = "verifying"
    /\ \E o \in Outcomes :
         IF o \in {"valid", "cancelled"} \/ attempt[t] = max_retries - 1
         THEN /\ pc' = [pc EXCEPT ![t] = "release"]
              /\ UNCHANGED attempt
         ELSE /\ attempt' = [attempt EXCEPT ![t] = @ + 1]
              /\ UNCHANGED pc
    /\ UNCHANGED <<initialized, round_robin_index, browsers, context_pools, global_pool,
                   agent_pool, batch_pc, init_i, context, browser_index, leased>>
    /\ UNCHANGED outsidePool

\* The finally block of _verify_with_pool: release_context, that is
\* ContextPool.release: clear_cookies, then Queue.put. When clear_cookies
\* raises, the put is never reached and the exception leaves the coroutine.
ReleaseContext(t) ==
    /\ pc[t] = "release"
    /\ \E cleared \in BOOLEAN :
         IF cleared
         THEN /\ Len(context_pools[browser_index[t] + 1]) < ContextsPerBrowser
              /\ context_pools' = [context_pools EXCEPT
                                     ![browser_index[t] + 1] = Append(@, context[t])]
              /\ leased' = leased \ {context[t]}
         ELSE UNCHANGED <<context_pools, leased>>
    /\ context' = [context EXCEPT ![t] = NoContext]
    /\ browser_index' = [browser_index EXCEPT ![t] = 0]
    /\ attempt' = [attempt EXCEPT ![t] = 0]
    /\ init_i' = [init_i EXCEPT ![t] = 0]
    /\ pc' = [pc EXCEPT ![t] = "done"]
    /\ UNCHANGED <<initialized, round_robin_index, browsers, global_pool, agent_pool,
                   batch_pc>>
    /\ UNCHANGED outsidePool

\* asyncio.gather(*tasks, return_exceptions=True) has collected every task:
\* batch_verify_products returns.
BatchReturn ==
    /\ batch_pc = "running"
    /\ \A t \in Tasks : pc[t] \in {"none", "done"}
    /\ batch_pc' = "returned"
    /\ pc' = [t \in Tasks |-> "none"]
    /\ UNCHANGED <<initialized, round_robin_index, browsers, context_pools, global_pool,
                   agent_pool, init_i, context, browser_index, attempt, leased>>
    /\ UNCHANGED outsidePool

\* close_browser_pool between two batches: BrowserPool.close empties every
\* queue (closing the contexts in it), closes the browsers, clears
\* _initialized; the global is reset. _browsers and _context_pools keep
\* their entries.
CloseBrowserPool ==
    /\ global_pool
    /\ batch_pc # "running"
    /\ global_pool' = FALSE
    /\ initialized' = FALSE
    /\ context_pools' = [p \in 1..Len(context_pools) |-> <<>>]
    /\ UNCHANGED <<round_robin_index, browsers, agent_pool, batch_pc, pc, init_i,
                   context, browser_index, attempt, leased>>
    /\ UNCHANGED outsidePool

PoolNext ==
    \/ \E n \in 0..MaxProducts : BatchStart(n)
    \/ \E t \in Tasks : AcquireContext(t)
    \/ \E t \in Tasks : InitLaunch(t)
    \/ \E t \in Tasks : InitContextPool(t)
    \/ \E t \in Tasks : QueueGet(t)
    \/ \E t \in Tasks : VerifyAttempt(t)
    \/ \E t \in Tasks : ReleaseContext(t)
    \/ BatchReturn
    \/ CloseBrowserPool

(***************************************************************************)
(* Products, budget and sources of HybridProductSearch.                    *)
(***************************************************************************)
\* Longest list one source task returns.
MaxResults == 1

\* Product.price and Product.relevance_score are Optional: None.
NoPrice == -1
NoScore == -1

\* Product.retailer is Optional; retailers_allowlist may be None.
NoRetailer == "None"
NoAllowlist == <<>>

\* budget argument of the calls (soft_cap, hard_cap).
Budget == [soft_cap |-> 2, hard_cap |-> 4]

\* Deployment given by __init__: OpenSERP, visual scraping, Google Shopping
\* and the vector DB are switched off in the constructor and there is no
\* Claude client; the remaining flags come from config.
Deployments == {{"asos", "oxylabs", "searchapi"}, {"oxylabs", "searchapi", "retailed"}}

\* Order in which search_multi_source appends the tasks.
TaskOrder == <<"asos", "oxylabs", "searchapi", "retailed">>

Sources == {TaskOrder[i] : i \in 1..Len(TaskOrder)}

\* Product.source written by each source client.
SourceTag(s) ==
    CASE s = "asos" -> "asos"
      [] s = "oxylabs" -> "google_shopping"
      [] s = "searchapi" -> "searchapi_shopping"
      [] s = "retailed" -> "retailed_io"

\* Product.retailer written by each source client.
RetailerOf(s) == IF s = "asos" THEN "ASOS" ELSE "Zara"

\* url, price, relevance_score (in tenths) and availability_status of the
\* products found on the web: one within the budget, one above hard_cap, one
\* out of stock, one without price and score.
Profiles ==
    { [url |-> "u1", price |-> 2, relevance_score |-> 10, availability_status |-> "in_stock"],
      [url |-> "u1", price |-> 5, relevance_score |-> 8, availability_status |-> "in_stock"],
      [url |-> "u2", price |-> 3, relevance_score |-> 5, availability_status |-> "out_of_stock"],
      [url |-> "u2", price |-> NoPrice, relevance_score |-> NoScore,
       availability_status |-> "in_stock"] }

\* Product URLs the sources come back with.
Urls == {f.url : f \in Profiles}

\* Only the Retailed client fills availability_status; the other clients
\* leave the default "in_stock".
ProfilesOf(s) ==
    IF s = "retailed" THEN Profiles
    ELSE {f \in Profiles : f.availability_status = "in_stock"}

\* Products a source can come back with.
Catalogue(s) ==
    { [url |-> f.url, price |-> f.price, relevance_score |-> f.relevance_score,
       availability_status |-> f.availability_status,
       retailer |-> RetailerOf(s), source |-> SourceTag(s)] :
      f \in ProfilesOf(s) }

RECURSIVE ListsUpTo(_, _)
ListsUpTo(S, n) ==
    IF n = 0 THEN {<<>>}
    ELSE LET shorter == ListsUpTo(S, n - 1)
         IN shorter \cup {Append(l, x) : l \in {m \in shorter : Len(m) = n - 1}, x \in S}

\* Product lists a source task can return.
ResultLists(s) == ListsUpTo(Catalogue(s), MaxResults)

\* str(exception) of a failed source task: the HTTP status named in the
\* message and the source words found in its lower-cased text.
NoError == [code |-> "none", names |-> {}]

ErrorMessages(s) ==
    {[code |-> c, names |-> {s}] : c \in {"400", "403", "401", "429"}}
        \cup {[code |-> "401", names |-> {}], [code |-> "400", names |-> {"google"}]}

\* _search_oxylabs, _search_searchapi and _search_retailed re-raise what the
\* client raised; _search_asos catches every Exception and returns [].
RaisingSources == {"oxylabs", "searchapi", "retailed"}

\* k and retailers_allowlist of a call.
CallArgs == {[k |-> 1, retailers_allowlist |-> NoAllowlist],
             [k |-> 50, retailers_allowlist |-> NoAllowlist],
             [k |-> 50, retailers_allowlist |-> <<"asos">>]}

NoArgs == [k |-> 0, retailers_allowlist |-> NoAllowlist]

\* products_to_verify = uncached_products[:30]
VerifyLimit == 30

Range(s) == {s[i] : i \in 1..Len(s)}

Take(s, n) == SubSeq(s, 1, IF n < Len(s) THEN n ELSE Len(s))

\* str.lower() on the strings of the model.
Lower(s) ==
    CASE s = "ASOS" -> "asos"
      [] s = "Zara" -> "zara"
      [] s = "U1" -> "u1"
      [] s = "U2" -> "u2"
      [] OTHER -> s

\* `p.relevance_score or 0`
Rel(p) == IF p.relevance_score = NoScore THEN 0 ELSE p.relevance_score

\* list.sort(key=..., reverse=True) on <<key, item>> pairs: descending and
\* stable.
RECURSIVE InsertDesc(_, _)
InsertDesc(x, s) ==
    IF s = <<>> THEN <<x>>
    ELSE IF Head(s)[1] >= x[1] THEN <<Head(s)>> \o InsertDesc(x, Tail(s))
    ELSE <<x>> \o s

RECURSIVE SortDesc(_)
SortDesc(s) ==
    IF s = <<>> THEN <<>>
    ELSE InsertDesc(s[Len(s)], SortDesc(SubSeq(s, 1, Len(s) - 1)))

\* The list is left in the order of the sources.
SortByRelevance_Unsorted(products) == products

\* uncached_products.sort(key=lambda p: p.relevance_score or 0.0, reverse=True)
SortByRelevance(products) ==
    LET sorted == SortDesc([i \in 1..Len(products) |-> <<Rel(products[i]), products[i]>>])
    IN [i \in 1..Len(sorted) |-> sorted[i][2]]

(***************************************************************************)
(* _deduplicate_products, _apply_filters, _rank_products.                  *)
(***************************************************************************)
\* The loop of _deduplicate_products: `seen` is the dict seen_urls keyed by
\* the lower-cased URL, `unique` the list that is returned.  A later
\* duplicate with a higher score replaces the dict entry only.
RECURSIVE DedupLoop(_, _, _)
DedupLoop(products, seen, unique) ==
    IF products = <<>> THEN unique
    ELSE LET product == Head(products)
             url == Lower(product.url)
         IN IF url \in DOMAIN seen
            THEN IF Rel(product) > Rel(seen[url])
                 THEN DedupLoop(Tail(products), [seen EXCEPT ![url] = product], unique)
                 ELSE DedupLoop(Tail(products), seen, unique)
            ELSE DedupLoop(Tail(products), seen @@ (url :> product),
                           Append(unique, product))

deduplicate_products(products) == DedupLoop(products, <<>>, <<>>)

\* One iteration of _apply_filters: TRUE when the product is kept.
PassesFilters_NoCap(product, max_price, retailers_allowlist) ==
    ~ (/\ retailers_allowlist # NoAllowlist
       /\ product.retailer # NoRetailer
       /\ Lower(product.retailer) \notin {Lower(r) : r \in Range(retailers_allowlist)})

PassesFilters(product, max_price, retailers_allowlist) ==
    /\ ~ (product.price # NoPrice /\ product.price > max_price)
    /\ ~ (/\ retailers_allowlist # NoAllowlist
          /\ product.retailer # NoRetailer
          /\ Lower(product.retailer) \notin {Lower(r) : r \in Range(retailers_allowlist)})

apply_filters(products, max_price, retailers_allowlist) ==
    SelectSeq(products, LAMBDA p : PassesFilters(p, max_price, retailers_allowlist))

\* _score_price_fit in thousandths.
score_price_fit_ZeroAtHardCap(price, soft_cap, hard_cap) ==
    IF price = NoPrice THEN 300
    ELSE IF price >= hard_cap THEN 0
    ELSE IF price <= soft_cap THEN 800 + (price * 200) \div soft_cap
    ELSE 800 - ((price - soft_cap) * 600) \div (hard_cap - soft_cap)

score_price_fit_NoPenalty(price, soft_cap, hard_cap) ==
    IF price = NoPrice THEN 300
    ELSE IF price > hard_cap THEN 0
    ELSE 800 + (price * 200) \div soft_cap

score_price_fit(price, soft_cap, hard_cap) ==
    IF price = NoPrice THEN 300
    ELSE IF price > hard_cap THEN 0
    ELSE IF price <= soft_cap THEN 800 + (price * 200) \div soft_cap
    ELSE 800 - ((price - soft_cap) * 600) \div (hard_cap - soft_cap)

\* source_scores.get(product.source, 0.5) in hundredths.
SourceScore(source) ==
    CASE source = "openserp" -> 100
      [] source = "claude_web_search" -> 98
      [] source = "searchapi_shopping" -> 95
      [] source = "retailed_io" -> 92
      [] source = "web_search" -> 90
      [] source = "asos" -> 85
      [] source = "google_shopping" -> 80
      [] source = "vector_db" -> 70
      [] OTHER -> 50

\* Product.in_stock: the Retailed client derives availability_status from it,
\* the other clients leave both at their defaults.
InStock(product) == product.availability_status # "out_of_stock"

\* The score _rank_products gives a product, in units of 1/20000; filters
\* carry no preferred brands.
RankScore(product, budget) ==
    Rel(product) * 600
        + score_price_fit(product.price, budget.soft_cap, budget.hard_cap) * 5
        + SourceScore(product.source) * 40
        + (IF InStock(product) THEN 3000 ELSE 0)

rank_products(products, budget) ==
    LET sorted == SortDesc([i \in 1..Len(products) |->
                               <<RankScore(products[i], budget), products[i]>>])
    IN [i \in 1..Len(sorted) |-> sorted[i][2]]

(***************************************************************************)
(* LinkVerificationCache as used by search_multi_source.                   *)
(***************************************************************************)
NoEntry == [url |-> "none"]

\* LinkVerificationCache(default_ttl=...): 3600 seconds by default, scaled down.
default_ttl == 2

\* Argument ttl=None of cache_verification.
NoTTL == 0

\* Remaining time of a Redis key that has no expiry.
Persist == -1

\* A JSON value: null, a number or a string.
JsonNull == <<"null">>

JsonNumber(n) == <<"number", n>>

JsonString(str) == <<"string", str>>

\* json.dumps(product.model_dump()): the Optional fields left at None are
\* written as null, the others as numbers and strings.
Serialize(product) ==
    [url |-> JsonString(product.url),
     price |-> IF product.price = NoPrice THEN JsonNull ELSE JsonNumber(product.price),
     relevance_score |-> IF product.relevance_score = NoScore THEN JsonNull
                         ELSE JsonNumber(product.relevance_score),
     availability_status |-> JsonString(product.availability_status),
     retailer |-> IF product.retailer = NoRetailer THEN JsonNull
                  ELSE JsonString(product.retailer),
     source |-> JsonString(product.source)]

\* Product(**json.loads(data)): null gives None. The text was dumped from a
\* Product, so the Literal fields validate.
Deserialize_PriceLost(data) ==
    [url |-> data.url[2],
     price |-> NoPrice,
     relevance_score |-> IF data.relevance_score = JsonNull THEN NoScore
                         ELSE data.relevance_score[2],
     availability_status |-> data.availability_status[2],
     retailer |-> IF data.retailer = JsonNull THEN NoRetailer ELSE data.retailer[2],
     source |-> data.source[2]]

Deserialize(data) ==
    [url |-> data.url[2],
     price |-> IF data.price = JsonNull THEN NoPrice ELSE data.price[2],
     relevance_score |-> IF data.relevance_score = JsonNull THEN NoScore
                         ELSE data.relevance_score[2],
     availability_status |-> data.availability_status[2],
     retailer |-> IF data.retailer = JsonNull THEN NoRetailer ELSE data.retailer[2],
     source |-> data.source[2]]

\* `ttl = ttl or self.default_ttl`
AskedTTL(ttl) == IF ttl = NoTTL THEN default_ttl ELSE ttl

\* The expiry cache_verification hands to Redis with setex(key, ttl, data).
StoreTTL_NoExpiry(ttl) == Persist

StoreTTL(ttl) == AskedTTL(ttl)

\* The Redis key written for a product.
Entry(product, ttl) == [data |-> Serialize(product), ttl |-> StoreTTL(ttl)]

\* get_cached_verification: the product read back, as a list of at most one.
get_cached_verification(url, client, entries) ==
    IF ~client \/ entries[url] = NoEntry THEN <<>>
    ELSE <<Deserialize(entries[url].data)>>

\* get_batch: the entries found for the URLs, in the order of the first
\* occurrence of each URL; nothing when there is no client.
RECURSIVE CachedOf(_, _, _)
CachedOf(urls, entries, seenUrls) ==
    IF urls = <<>> THEN <<>>
    ELSE IF Head(urls) \in seenUrls \/ entries[Head(urls)] = NoEntry
         THEN CachedOf(Tail(urls), entries, seenUrls)
         ELSE <<Deserialize(entries[Head(urls)].data)>>
                  \o CachedOf(Tail(urls), entries, seenUrls \cup {Head(urls)})

get_batch(urls, client, entries) ==
    IF ~client THEN <<>> ELSE CachedOf(urls, entries, {})

\* cache_batch: one setex per product, a later product overwriting an
\* earlier one with the same URL; nothing when there is no client.
RECURSIVE cache_batch(_, _, _)
cache_batch(products, client, entries) ==
    IF ~client \/ products = <<>> THEN entries
    ELSE cache_batch(Tail(products), client,
                     [entries EXCEPT ![Head(products).url] = Entry(Head(products), NoTTL)])

\* Redis after one second: the keys whose time has run out are gone.
RedisAfterSecond(entries) ==
    [u \in DOMAIN entries |->
        IF entries[u] = NoEntry THEN NoEntry
        ELSE IF entries[u].ttl = Persist THEN entries[u]
        ELSE IF entries[u].ttl = 1 THEN NoEntry
        ELSE [entries[u] EXCEPT !.ttl = @ - 1]]

NoRead == [urls |-> <<>>, products |-> <<>>]

\* TTL overrides passed to cache_verification.
TTLs == {NoTTL, 1}

\* Products handed to the cache.
CacheProducts == Catalogue("retailed")

\* A constructed LinkVerificationCache: no client before connect().
CacheInit ==
    /\ cache_client = FALSE
    /\ cache = [u \in Urls |-> NoEntry]
    /\ deadline = [u \in Urls |-> 0]
    /\ expired = {}
    /\ last_read = NoRead
    /\ written = [u \in Urls |-> NoEntry]
    /\ invalidated = {}

\* connect(): the client is kept when the ping succeeds, None otherwise.
Connect ==
    /\ ~cache_client
    /\ \E ok \in BOOLEAN : cache_client' = ok
    /\ last_read' = NoRead
    /\ UNCHANGED <<cache, deadline, expired, written, invalidated>>
    /\ UNCHANGED outsideCache

\* cache_verification(product, ttl) with a client: setex stores the entry,
\* or raises and the method returns False.
CacheVerification(product, ttl) ==
    /\ cache_client
    /\ \E stored \in BOOLEAN :
         IF stored
         THEN /\ cache' = [cache EXCEPT ![product.url] = Entry(product, ttl)]
              /\ deadline' = [deadline EXCEPT ![product.url] = AskedTTL(ttl)]
              /\ expired' = expired \ {product.url}
              /\ written' = [written EXCEPT ![product.url] = product]
              /\ invalidated' = invalidated \ {product.url}
         ELSE UNCHANGED <<cache, deadline, expired, written, invalidated>>
    /\ last_read' = NoRead
    /\ UNCHANGED cache_client
    /\ UNCHANGED outsideCache

GetCachedVerification(url) ==
    /\ last_read' = [urls |-> <<url>>,
                     products |-> get_cached_verification(url, cache_client, cache)]
    /\ UNCHANGED <<cache_client, cache, deadline, expired, written, invalidated>>
    /\ UNCHANGED outsideCache

GetBatch(urls) ==
    /\ last_read' = [urls |-> urls, products |-> get_batch(urls, cache_client, cache)]
    /\ UNCHANGED <<cache_client, cache, deadline, expired, written, invalidated>>
    /\ UNCHANGED outsideCache

\* invalidate_cache(url) with a client: delete removes the key and the
\* method returns True when there was one to remove; or delete raises, the
\* key stays and the method returns False.
InvalidateCache(url) ==
    /\ cache_client
    /\ \E deleted \in BOOLEAN :
         IF deleted
         THEN /\ cache' = [cache EXCEPT ![url] = NoEntry]
              /\ invalidated' = IF cache[url] # NoEntry THEN invalidated \cup {url}
                                ELSE invalidated
         ELSE UNCHANGED <<cache, invalidated>>
    /\ last_read' = NoRead
    /\ UNCHANGED <<cache_client, deadline, expired, written>>
    /\ UNCHANGED outsideCache

\* One second passes.
Tick ==
    /\ \E u \in Urls : deadline[u] > 0
    /\ cache' = RedisAfterSecond(cache)
    /\ deadline' = [u \in Urls |-> IF deadline[u] > 0 THEN deadline[u] - 1 ELSE 0]
    /\ expired' = expired \cup {u \in Urls : deadline[u] = 1}
    /\ last_read' = NoRead
    /\ UNCHANGED <<cache_client, written, invalidated>>
    /\ UNCHANGED outsideCache

CacheNext ==
    \/ Connect
    \/ \E product \in CacheProducts : \E ttl \in TTLs : CacheVerification(product, ttl)
    \/ \E url \in Urls : GetCachedVerification(url)
    \/ \E urls \in ListsUpTo(Urls, 2) : GetBatch(urls)
    \/ \E url \in Urls : InvalidateCache(url)
    \/ Tick

(***************************************************************************)
(* search_multi_source.                                                    *)
(***************************************************************************)
\* The tasks built by lines 250-287 for the enabled sources.
StartedSources_IgnoreFailed(flags, failed) ==
    {s \in flags \ {"searchapi"} : TRUE}
        \cup (IF "oxylabs" \notin flags /\ "searchapi" \in flags
              THEN {"searchapi"} ELSE {})

StartedSources(flags, failed) ==
    {s \in flags \ {"searchapi"} : s \notin failed}
        \cup (IF /\ ~ ("oxylabs" \in flags /\ "oxylabs" \notin failed)
                 /\ "searchapi" \in flags /\ "searchapi" \notin failed
              THEN {"searchapi"} ELSE {})

\* asyncio.gather(*tasks, return_exceptions=True)
return_exceptions_off == FALSE

return_exceptions == TRUE

\* gather hands the results over when every task has settled.
GatherDone_FirstSettled(res, tasks) ==
    tasks = {} \/ \E s \in tasks : res[s].kind # "pending"

GatherDone(res, tasks) == \A s \in tasks : res[s].kind # "pending"

\* all_products after the flatten loop: the lists in task order.
RECURSIVE FlattenResults(_, _)
FlattenResults(res, i) ==
    IF i > Len(TaskOrder) THEN <<>>
    ELSE (IF res[TaskOrder[i]].kind = "list" THEN res[TaskOrder[i]].products ELSE <<>>)
             \o FlattenResults(res, i + 1)

\* The source the fail-fast block adds to _failed_sources for one exception
\* message, "none" when it adds nothing.
FailFast(e) ==
    IF e.code = "400" THEN
        IF "oxylabs" \in e.names THEN "oxylabs"
        ELSE IF "searchapi" \in e.names THEN "searchapi"
        ELSE IF "retailed" \in e.names THEN "retailed"
        ELSE IF "google" \in e.names \/ "customsearch" \in e.names THEN "google_shopping"
        ELSE "none"
    ELSE IF e.code = "403" THEN
        IF "oxylabs" \in e.names THEN "oxylabs"
        ELSE IF "asos" \in e.names THEN "asos"
        ELSE IF "retailed" \in e.names THEN "retailed"
        ELSE "none"
    ELSE IF e.code = "401" THEN
        IF "oxylabs" \in e.names THEN "oxylabs"
        ELSE IF "searchapi" \in e.names THEN "searchapi"
        ELSE IF "retailed" \in e.names THEN "retailed"
        ELSE "none"
    ELSE "none"

NewFailures(res, tasks) ==
    {FailFast(res[s].error) : s \in {t \in tasks : res[t].kind = "exc"}} \ {"none"}

NoResult == [kind |-> "none", products |-> <<>>, error |-> NoError]

Pending == [kind |-> "pending", products |-> <<>>, error |-> NoError]

\* State after HybridProductSearch.__init__: the LinkVerificationCache is
\* constructed but connect() is not called, so it has no client.
SearchInit ==
    /\ enabled \in Deployments
    /\ enable_link_verification \in BOOLEAN
    /\ failed_sources = {}
    /\ cache_client = FALSE
    /\ cache = [u \in Urls |-> NoEntry]
    /\ call_pc = "idle"
    /\ call_args = NoArgs
    /\ started = {}
    /\ results = [s \in Sources |-> NoResult]
    /\ returned = <<>>
    /\ raised = FALSE
    /\ path = "none"
    /\ over_cap_dropped = {}
    /\ verified_ok = {}
    /\ reverified = {}
    /\ returned_verified = {}

\* The search service is not constructed.
SearchQuiet ==
    /\ enabled = {}
    /\ enable_link_verification = FALSE
    /\ failed_sources = {}
    /\ cache_client = FALSE
    /\ cache = <<>>
    /\ call_pc = "idle"
    /\ call_args = NoArgs
    /\ started = {}
    /\ results = <<>>
    /\ returned = <<>>
    /\ raised = FALSE
    /\ path = "none"
    /\ over_cap_dropped = {}
    /\ verified_ok = {}
    /\ reverified = {}
    /\ returned_verified = {}

\* search_multi_source up to asyncio.gather: the tasks are built and started.
SearchStart(args) ==
    /\ call_pc \in {"idle", "returned"}
    /\ call_pc' = "gather"
    /\ call_args' = args
    /\ started' = StartedSources(enabled, failed_sources)
    /\ results' = [s \in Sources |->
                      IF s \in StartedSources(enabled, failed_sources)
                      THEN Pending ELSE NoResult]
    /\ returned' = <<>>
    /\ raised' = FALSE
    /\ path' = "none"
    /\ over_cap_dropped' = {}
    /\ reverified' = {}
    /\ UNCHANGED <<enabled, enable_link_verification, failed_sources, cache_client,
                   cache, verified_ok, returned_verified>>
    /\ UNCHANGED outsideSearch

\* A source task returns its list (_search_asos returns [] when the client
\* raised).
SourceReturn(s, products) ==
    /\ call_pc = "gather"
    /\ s \in started
    /\ results[s].kind = "pending"
    /\ results' = [results EXCEPT ![s] = [kind |-> "list", products |-> products,
                                          error |-> NoError]]
    /\ UNCHANGED <<enabled, enable_link_verification, failed_sources, cache_client,
                   cache, call_pc, call_args, started, returned, raised, path,
                   over_cap_dropped, verified_ok, returned_verified, reverified>>
    /\ UNCHANGED outsideSearch

\* A source task raises: gather keeps the exception as that task's result.
SourceRaise(s, e) ==
    /\ call_pc = "gather"
    /\ s \in started \cap RaisingSources
    /\ results[s].kind = "pending"
    /\ IF return_exceptions
       THEN /\ results' = [results EXCEPT ![s] = [kind |-> "exc", products |-> <<>>,
                                                  error |-> e]]
            /\ UNCHANGED <<call_pc, raised>>
       ELSE /\ results' = [results EXCEPT ![s] = [kind |-> "exc", products |-> <<>>,
                                                  error |-> NoError]]
            /\ call_pc' = "returned"
            /\ raised' = TRUE
    /\ UNCHANGED <<enabled, enable_link_verification, failed_sources, cache_client,
                   cache, call_args, started, returned, path,
                   over_cap_dropped, verified_ok, returned_verified, reverified>>
    /\ UNCHANGED outsideSearch

\* The products of a batch the verifier found valid.
VerifiedProducts(products, valid) ==
    LET idx == SelectSeq([i \in 1..Len(products) |-> i], LAMBDA i : valid[i])
    IN [j \in 1..Len(idx) |-> products[idx[j]]]

\* The products whose returns are remembered from call to call.
Tracked(product) ==
    product.url = "u1" /\ product.price = 2 /\ product.source = "google_shopping"

\* A connected cache that holds nothing.
EmptyCache == [u \in Urls |-> NoEntry]

\* "Check cache first": the products get_batch found, none without a client.
CachedProducts(all_products, verifying, client, entries) ==
    IF verifying
    THEN get_batch([i \in 1..Len(all_products) |-> all_products[i].url], client, entries)
    ELSE <<>>

\* uncached_products before the sort: all_products without the cached URLs
\* when get_batch found something, all_products itself otherwise and when
\* there is no client.
UncachedProducts_NoneWithoutClient(all_products, client, cached_urls) ==
    IF ~client THEN <<>>
    ELSE SelectSeq(all_products, LAMBDA p : p.url \notin cached_urls)

UncachedProducts(all_products, client, cached_urls) ==
    IF client /\ cached_urls # {}
    THEN SelectSeq(all_products, LAMBDA p : p.url \notin cached_urls)
    ELSE all_products

\* products_to_verify: the first VerifyLimit uncached products by relevance.
ProductsToVerify(all_products, verifying, client, entries) ==
    LET cached_urls ==
            {p.url : p \in Range(CachedProducts(all_products, verifying, client, entries))}
    IN IF verifying
       THEN Take(SortByRelevance(UncachedProducts(all_products, client, cached_urls)),
                 VerifyLimit)
       ELSE <<>>

\* all_products as it leaves the verification block, for the verdicts
\* `valid` of the verifier on products_to_verify.
Candidates(all_products, verifying, valid, k, client, entries) ==
    LET cached_products == CachedProducts(all_products, verifying, client, entries)
        cached_urls == {p.url : p \in Range(cached_products)}
        uncached_products ==
            SortByRelevance(UncachedProducts(all_products, client, cached_urls))
        checked == cached_products
                     \o VerifiedProducts(Take(uncached_products, VerifyLimit), valid)
    IN IF ~verifying THEN all_products
       ELSE IF checked = <<>> THEN Take(uncached_products, k)
       ELSE checked

\* Dedup, filters, ranking, top k.
RankedTopK(candidates, args) ==
    Take(rank_products(apply_filters(deduplicate_products(candidates), Budget.hard_cap,
                                     args.retailers_allowlist),
                       Budget),
         args.k)

\* Redis when a command is sent: it answers, or the command raises
\* (connection lost, timeout).  Nothing is sent when nothing is asked.
BackendAnswers(asked) == IF asked THEN BOOLEAN ELSE {TRUE}

\* search_multi_source after gather: flatten and fail-fast, verification
\* block with cache and fallback, dedup, filters, ranking, top k.  An error
\* of pipe.execute() in get_batch leaves the call; an error of setex is
\* caught in cache_verification and the product is not stored.
SearchReturn ==
    /\ call_pc = "gather"
    /\ GatherDone(results, started)
    /\ LET all_products == FlattenResults(results, 1)
           verifying == enable_link_verification /\ all_products # <<>>
           cached_products == CachedProducts(all_products, verifying, cache_client, cache)
           cached_urls == {p.url : p \in Range(cached_products)}
           uncached_products ==
               SortByRelevance(UncachedProducts(all_products, cache_client, cached_urls))
           products_to_verify ==
               ProductsToVerify(all_products, verifying, cache_client, cache)
       IN \E read_ok \in BackendAnswers(cache_client /\ verifying) :
          IF ~read_ok
          THEN /\ raised' = TRUE
               /\ returned' = <<>>
               /\ path' = "cache_error"
               /\ over_cap_dropped' = {}
               /\ reverified' = {}
               /\ UNCHANGED <<cache, verified_ok, returned_verified>>
          ELSE \E valid \in [1..Len(products_to_verify) -> BOOLEAN] :
           LET verified_products == VerifiedProducts(products_to_verify, valid)
               checked == cached_products \o verified_products
               fallback == verifying /\ checked = <<>>
               candidates == Candidates(all_products, verifying, valid, call_args.k,
                                        cache_client, cache)
               unique_products == deduplicate_products(candidates)
               filtered_products ==
                   apply_filters(unique_products, Budget.hard_cap,
                                 call_args.retailers_allowlist)
               ranked_products == rank_products(filtered_products, Budget)
           IN /\ returned' = RankedTopK(candidates, call_args)
              /\ path' = IF ~verifying THEN "unverified"
                         ELSE IF fallback THEN "fallback"
                         ELSE IF verified_products = <<>> THEN "cache"
                         ELSE "verified"
              /\ over_cap_dropped' =
                     {p.url : p \in {q \in Range(unique_products) :
                                        q.price # NoPrice /\ q.price > Budget.hard_cap}}
              /\ \E write_ok \in BackendAnswers(cache_client /\ verified_products # <<>>) :
                   cache' = IF write_ok
                            THEN cache_batch(verified_products, cache_client, cache)
                            ELSE cache
              /\ verified_ok' = verified_ok \cup {p.url : p \in Range(verified_products)}
              /\ returned_verified' =
                     IF verifying /\ ~fallback
                     THEN returned_verified \cup
                          {p \in Range(Take(ranked_products, call_args.k)) : Tracked(p)}
                     ELSE returned_verified
              /\ reverified' = {p.url : p \in Range(products_to_verify)} \cap verified_ok
              /\ UNCHANGED raised
    /\ failed_sources' = failed_sources \cup NewFailures(results, started)
    /\ results' = [s \in Sources |-> [kind |-> results[s].kind, products |-> <<>>,
                                      error |-> NoError]]
    /\ call_pc' = "returned"
    /\ UNCHANGED <<enabled, enable_link_verification, cache_client, call_args,
                   started>>
    /\ UNCHANGED outsideSearch

SearchNext ==
    \/ \E args \in CallArgs : SearchStart(args)
    \/ \E s \in Sources : \E products \in ResultLists(s) : SourceReturn(s, products)
    \/ \E s \in Sources : \E e \in ErrorMessages(s) : SourceRaise(s, e)
    \/ SearchReturn

(***************************************************************************)
(* One application of _deduplicate_products to a list of products.         *)
(***************************************************************************)
\* Longest list handed to _deduplicate_products.
MaxDedupLen == 2

\* Candidates that differ in URL (also in letter case only) and relevance.
DedupProducts ==
    { [url |-> u, price |-> 2, relevance_score |-> r,
       availability_status |-> "in_stock", retailer |-> "Zara",
       source |-> "google_shopping"] :
      u \in {"u1", "U1", "u2"}, r \in {NoScore, 5, 10} }

DedupInit ==
    /\ dedup_pc = "input"
    /\ dedup_in \in ListsUpTo(DedupProducts, MaxDedupLen)
    /\ dedup_out = <<>>

\* No list is being deduplicated.
DedupQuiet ==
    /\ dedup_pc = "input"
    /\ dedup_in = <<>>
    /\ dedup_out = <<>>

DedupApply ==
    /\ dedup_pc = "input"
    /\ dedup_pc' = "done"
    /\ dedup_out' = deduplicate_products(dedup_in)
    /\ UNCHANGED dedup_in
    /\ UNCHANGED outsideDedup

DedupNext == DedupApply

(***************************************************************************)
(* OpenSERPManager: start(), stop() and the _monitor_health task.  The     *)
(* steps are the stretches of code between two awaits.                     *)
(***************************************************************************)
\* OpenSERPManager(max_restart_attempts=3)
max_restart_attempts == 3

\* Callers of start(): caller 1 is the application lifecycle (start, stop,
\* restart, one after the other), the others are search_products_hybrid
\* calls that arrive at any time.
MaxStartCallers == 2

StartCallers == 1..MaxStartCallers

\* Monitor tasks that can be alive at once.
MaxMonitors == 2

Monitors == 1..MaxMonitors

\* What a Popen can be doing: still loading its engines, answering
\* /mega/engines with an initialized engine, not answering, or exited.
Alive == {"starting", "serving", "hung"}

\* A process spawned while another one holds the port runs without it.
Living == Alive \cup {"portless"}

\* The process that answers requests to base_url, if any.
PortHolder(proc, orph) == IF orph \in Alive THEN orph ELSE proc

\* `if self.restart_count < self.max_restart_attempts`
RestartAllowed_Always(count) == TRUE

RestartAllowed(count) == count < max_restart_attempts

\* `if consecutive_failures >= 1`
ShouldRestart_Late(failures) == failures >= 2

ShouldRestart(failures) == failures >= 1

\* check_health(): is_running and a process handle, the handle's poll(),
\* then the answer of base_url.
check_health(running, proc, holder) ==
    IF ~running \/ proc = "none" THEN FALSE
    ELSE IF proc \notin Living THEN FALSE
    ELSE holder = "serving"

\* _wait_for_ready(): an initialized engine answered before the timeout.
wait_for_ready_AnyAlive(proc) == proc \in Alive

wait_for_ready(proc) == proc = "serving"

\* `self._monitor_task and not self._monitor_task.done()`
MonitorActive(m) == monitor_pc[m] \in {"sleep", "restart_wait", "ready_poll"}

\* asyncio.create_task(self._monitor_health()): the new task takes the
\* first slot no unfinished task occupies.
FreeMonitors == {m \in Monitors : monitor_pc[m] \in {"none", "done"}}

NewMonitor == CHOOSE m \in FreeMonitors : \A n \in FreeMonitors : m <= n

\* `while self.is_running` after an iteration of _monitor_health.
LoopTest(running) == IF running THEN "sleep" ELSE "done"

SupervisorInit ==
    /\ is_running = FALSE
    /\ restart_count = 0
    /\ process = "none"
    /\ orphan = "none"
    /\ start_pc = [c \in StartCallers |-> "idle"]
    /\ via_ensure = [c \in StartCallers |-> FALSE]
    /\ manager_started = FALSE
    /\ stop_pc = "idle"
    /\ manual_restart = FALSE
    /\ monitor_pc = [m \in Monitors |-> "none"]
    /\ monitor_task = 0
    /\ consecutive_failures = [m \in Monitors |-> 0]
    /\ attempts = 0
    /\ gave_up = FALSE
    /\ died = FALSE
    /\ stopped = FALSE

\* subprocess.Popen in _start_server has returned: self.process is the new
\* process.  A living process the handle pointed at goes on running without
\* a handle (one such process is followed).  The new process finds the port
\* free and starts loading, or finds it taken and runs without it or exits.
Popen ==
    /\ process \in Living => orphan \notin Living
    /\ orphan' = IF process \in Living THEN process ELSE orphan
    /\ \E state \in IF process \in Alive \/ orphan \in Alive
                    THEN {"portless", "dead"}
                    ELSE {"starting"} :
         process' = state

\* start(), called directly, by restart() after its sleep, or by
\* ensure_manager_started while _manager_started is false, up to the
\* readiness poll of _start_server: a running supervisor returns True at
\* once; otherwise the process is spawned, or Popen raises and start()
\* returns False.
StartSpawn(c) ==
    /\ start_pc[c] = "idle"
    /\ c = 1 => stop_pc \in {"idle", "restart_sleep"}
    /\ \E ensure \in BOOLEAN :
         /\ ensure => ~manager_started /\ ~(c = 1 /\ stop_pc = "restart_sleep")
         /\ c # 1 => ensure
         /\ IF is_running
            THEN /\ ensure \/ (c = 1 /\ stop_pc = "restart_sleep")
                 /\ manager_started' = (manager_started \/ ensure)
                 /\ UNCHANGED <<process, orphan, start_pc, via_ensure>>
            ELSE \E spawned \in BOOLEAN :
                   IF spawned
                   THEN /\ Popen
                        /\ start_pc' = [start_pc EXCEPT ![c] = "ready_poll"]
                        /\ via_ensure' = [via_ensure EXCEPT ![c] = ensure]
                        /\ UNCHANGED manager_started
                   ELSE /\ manager_started' = (manager_started \/ ensure)
                        /\ UNCHANGED <<process, orphan, start_pc, via_ensure>>
    /\ stop_pc' = IF c = 1 THEN "idle" ELSE stop_pc
    /\ manual_restart' = IF c = 1 THEN FALSE ELSE manual_restart
    /\ stopped' = FALSE
    /\ UNCHANGED <<is_running, restart_count, monitor_pc, monitor_task,
                   consecutive_failures, attempts, gave_up>>
    /\ UNCHANGED died
    /\ UNCHANGED outsideSupervisor

\* _wait_for_ready returns inside start(): ready, or timed out and
\* self.process is killed.  A ready server gets a new monitor task, and
\* ensure_manager_started sets its flag once start() has returned.
StartReady(c) ==
    /\ start_pc[c] = "ready_poll"
    /\ start_pc' = [start_pc EXCEPT ![c] = "idle"]
    /\ IF wait_for_ready(PortHolder(process, orphan))
       THEN /\ FreeMonitors # {}
            /\ is_running' = TRUE
            /\ restart_count' = 0
            /\ attempts' = 0
            /\ gave_up' = FALSE
            /\ monitor_pc' = [monitor_pc EXCEPT ![NewMonitor] = "sleep"]
            /\ monitor_task' = NewMonitor
            /\ consecutive_failures' = [consecutive_failures EXCEPT ![NewMonitor] = 0]
            /\ UNCHANGED process
       ELSE /\ process' = "none"
            /\ UNCHANGED <<is_running, restart_count, attempts, gave_up, monitor_pc,
                           monitor_task, consecutive_failures>>
    /\ manager_started' = (manager_started \/ via_ensure[c])
    /\ via_ensure' = [via_ensure EXCEPT ![c] = FALSE]
    /\ UNCHANGED <<orphan, stop_pc, manual_restart, stopped>>
    /\ died' = FALSE
    /\ UNCHANGED outsideSupervisor

\* How a process changes on its own: its engines come up, it stops
\* answering, it answers again, or it exits (segmentation fault).
ProcessSteps(state) ==
    {next \in {"serving", "hung", "dead"} :
        /\ next # state
        /\ state = "starting" => next # "hung"
        /\ state = "portless" => next = "dead"}

\* An aggregator process, with or without a handle, changes.
ProcessChanges ==
    /\ \/ /\ process \in Living
          /\ \E next \in ProcessSteps(process) : process' = next
          /\ UNCHANGED orphan
       \/ /\ orphan \in Living
          /\ \E next \in ProcessSteps(orphan) : orphan' = next
          /\ UNCHANGED process
    /\ UNCHANGED <<is_running, restart_count, start_pc, via_ensure, manager_started,
                   stop_pc, manual_restart, monitor_pc, monitor_task,
                   consecutive_failures, attempts, gave_up, stopped>>
    /\ died' = (died \/ (process' = "dead" /\ process # "dead" /\ is_running
                           /\ \E m \in Monitors : monitor_pc[m] = "sleep"))
    /\ UNCHANGED outsideSupervisor

\* One iteration of _monitor_health after its sleep: check_health, then
\* nothing, or restart_count += 1 and _kill_process, or giving up.  A task
\* is followed up to max_restart_attempts + 1 failed checks in a row, which
\* is as far as a monitor on its own can get.
MonitorCheck(m) ==
    /\ monitor_pc[m] = "sleep"
    /\ IF check_health(is_running, process, PortHolder(process, orphan))
       THEN /\ consecutive_failures' = [consecutive_failures EXCEPT ![m] = 0]
            /\ monitor_pc' = [monitor_pc EXCEPT ![m] = LoopTest(is_running)]
            /\ UNCHANGED <<is_running, restart_count, process, attempts, gave_up>>
       ELSE /\ consecutive_failures[m] <= max_restart_attempts
            /\ consecutive_failures' = [consecutive_failures EXCEPT ![m] = @ + 1]
            /\ IF ShouldRestart(consecutive_failures[m] + 1)
               THEN IF RestartAllowed(restart_count)
                    THEN /\ restart_count' = restart_count + 1
                         /\ attempts' = attempts + 1
                         /\ process' = "none"
                         /\ monitor_pc' = [monitor_pc EXCEPT ![m] = "restart_wait"]
                         /\ UNCHANGED <<is_running, gave_up>>
                    ELSE /\ is_running' = FALSE
                         /\ monitor_pc' = [monitor_pc EXCEPT ![m] = "done"]
                         /\ gave_up' = TRUE
                         /\ UNCHANGED <<restart_count, process, attempts>>
               ELSE /\ monitor_pc' = [monitor_pc EXCEPT ![m] = LoopTest(is_running)]
                    /\ UNCHANGED <<is_running, restart_count, process, attempts, gave_up>>
    /\ UNCHANGED <<orphan, start_pc, via_ensure, manager_started, stop_pc,
                   manual_restart, monitor_task, stopped>>
    /\ died' = (died /\ monitor_pc'[m] = "restart_wait")
    /\ UNCHANGED outsideSupervisor

\* The monitor after asyncio.sleep(2.0): _start_server spawns the process,
\* or Popen raises and the restart has failed.
MonitorSpawn(m) ==
    /\ monitor_pc[m] = "restart_wait"
    /\ \E spawned \in BOOLEAN :
         IF spawned
         THEN /\ Popen
              /\ monitor_pc' = [monitor_pc EXCEPT ![m] = "ready_poll"]
         ELSE /\ monitor_pc' = [monitor_pc EXCEPT ![m] = LoopTest(is_running)]
              /\ UNCHANGED <<process, orphan>>
    /\ UNCHANGED <<is_running, restart_count, start_pc, via_ensure, manager_started,
                   stop_pc, manual_restart, monitor_task, consecutive_failures,
                   attempts, gave_up, stopped>>
    /\ UNCHANGED died
    /\ UNCHANGED outsideSupervisor

\* _wait_for_ready returns inside the monitor's _start_server.
MonitorReady(m) ==
    /\ monitor_pc[m] = "ready_poll"
    /\ IF wait_for_ready(PortHolder(process, orphan))
       THEN /\ is_running' = TRUE
            /\ restart_count' = 0
            /\ attempts' = 0
            /\ consecutive_failures' = [consecutive_failures EXCEPT ![m] = 0]
            /\ monitor_pc' = [monitor_pc EXCEPT ![m] = "sleep"]
            /\ UNCHANGED process
       ELSE /\ process' = "none"
            /\ monitor_pc' = [monitor_pc EXCEPT ![m] = LoopTest(is_running)]
            /\ UNCHANGED <<is_running, restart_count, attempts, consecutive_failures>>
    /\ UNCHANGED <<orphan, start_pc, via_ensure, manager_started, stop_pc,
                   manual_restart, monitor_task, gave_up, stopped>>
    /\ UNCHANGED died
    /\ UNCHANGED outsideSupervisor

\* stop(), called directly or by restart(), up to `await
\* self._monitor_task`: is_running is cleared and the task _monitor_task
\* refers to is cancelled if it has not finished; without one, the process
\* is killed at once and stop() returns.
StopBegin ==
    /\ stop_pc = "idle"
    /\ start_pc[1] = "idle"
    /\ is_running' = FALSE
    /\ \E by_restart \in BOOLEAN :
         IF monitor_task # 0 /\ MonitorActive(monitor_task)
         THEN /\ monitor_pc' = [monitor_pc EXCEPT ![monitor_task] = "cancelled"]
              /\ stop_pc' = "await_monitor"
              /\ manual_restart' = by_restart
              /\ UNCHANGED <<process, stopped>>
         ELSE /\ process' = "none"
              /\ stop_pc' = IF by_restart THEN "restart_sleep" ELSE "idle"
              /\ stopped' = \A c \in StartCallers : start_pc[c] = "idle"
              /\ UNCHANGED <<monitor_pc, manual_restart>>
    /\ UNCHANGED <<restart_count, orphan, start_pc, via_ensure, manager_started,
                   monitor_task, consecutive_failures, attempts, gave_up>>
    /\ died' = FALSE
    /\ UNCHANGED outsideSupervisor

\* CancelledError is raised at the monitor's await and ends the task.
MonitorCancelled(m) ==
    /\ monitor_pc[m] = "cancelled"
    /\ monitor_pc' = [monitor_pc EXCEPT ![m] = "done"]
    /\ UNCHANGED <<is_running, restart_count, process, orphan, start_pc, via_ensure,
                   manager_started, stop_pc, manual_restart, monitor_task,
                   consecutive_failures, attempts, gave_up, stopped>>
    /\ UNCHANGED died
    /\ UNCHANGED outsideSupervisor

\* stop() after the task it cancelled has finished: _kill_process, and
\* stop() returns.
StopKill ==
    /\ stop_pc = "await_monitor"
    /\ \A m \in Monitors : monitor_pc[m] # "cancelled"
    /\ stop_pc' = IF manual_restart THEN "restart_sleep" ELSE "idle"
    /\ process' = "none"
    /\ stopped' = \A c \in StartCallers : start_pc[c] = "idle"
    /\ UNCHANGED <<is_running, restart_count, orphan, start_pc, via_ensure,
                   manager_started, manual_restart, monitor_pc, monitor_task,
                   consecutive_failures, attempts, gave_up>>
    /\ UNCHANGED died
    /\ UNCHANGED outsideSupervisor

\* One caller at a time: start, stop and restart of the application
\* lifecycle, with the monitor task they create.
SupervisorNext ==
    \/ StartSpawn(1)
    \/ StartReady(1)
    \/ ProcessChanges
    \/ MonitorCheck(1)
    \/ MonitorSpawn(1)
    \/ MonitorReady(1)
    \/ StopBegin
    \/ MonitorCancelled(1)
    \/ StopKill

\* The same with start() calls that overlap.
ConcurrentStartsNext ==
    \/ \E c \in StartCallers : StartSpawn(c)
    \/ \E c \in StartCallers : StartReady(c)
    \/ ProcessChanges
    \/ \E m \in Monitors : MonitorCheck(m)
    \/ \E m \in Monitors : MonitorSpawn(m)
    \/ \E m \in Monitors : MonitorReady(m)
    \/ StopBegin
    \/ \E m \in Monitors : MonitorCancelled(m)
    \/ StopKill

(***************************************************************************)
(* OpenSERPClient.search_products under concurrent callers.                *)
(***************************************************************************)
MaxCallers == 3

Callers == 1..MaxCallers

\* OpenSERPClient(max_concurrent_requests=1)
max_concurrent_requests == 1

\* search_products(max_retries=3), scaled down.
client_max_retries == 2

\* asyncio.Semaphore(max_concurrent_requests)
Semaphore_OneMore(n) == n + 1

Semaphore(n) == n

\* OpenSERPClient(request_delay=2.0)
request_delay == 2

\* What `await client.get(...)` and raise_for_status() can do: a response, or
\* TimeoutException, HTTPStatusError, RemoteProtocolError / ConnectError /
\* ReadError, any other Exception.
Responses == {"ok", "timeout", "http_error", "connection_error", "unexpected"}

\* The failures the retry loop retries.
Retried_AlsoHttpErrors == {"timeout", "connection_error", "http_error"}

Retried == {"timeout", "connection_error"}

\* The exceptions some except clause of the loop catches.
Caught == Retried \cup {"http_error", "unexpected"}

\* 2 ** attempt
RECURSIVE Pow2(_)
Pow2(n) == IF n = 0 THEN 1 ELSE 2 * Pow2(n - 1)

\* The sleep before a request that would come too soon.
RemainingDelay_None(time_since_last) == 0

RemainingDelay(time_since_last) == request_delay - time_since_last

\* The callers whose GET /mega/search has been sent and not yet answered.
InFlight == {c \in Callers : client_pc[c] = "request"}

NoCall == [requests |-> 0, result |-> "none"]

\* _last_request_time starts at 0.0, far in the past of the loop's clock.
ClientInit ==
    /\ semaphore = Semaphore(max_concurrent_requests)
    /\ client_pc = [c \in Callers |-> "idle"]
    /\ client_attempt = [c \in Callers |-> 0]
    /\ since_last = request_delay
    /\ sleep_left = [c \in Callers |-> 0]
    /\ client_call = [c \in Callers |-> NoCall]

\* A caller enters search_products and reaches `async with self._semaphore`.
SearchProductsCall(c) ==
    /\ client_pc[c] = "idle"
    /\ client_pc' = [client_pc EXCEPT ![c] = "acquire"]
    /\ client_attempt' = [client_attempt EXCEPT ![c] = 0]
    /\ client_call' = [client_call EXCEPT ![c] = NoCall]
    /\ UNCHANGED <<semaphore, since_last, sleep_left>>
    /\ UNCHANGED outsideClient

\* _last_request_time is set and the GET is sent.
SendRequest(c) ==
    /\ client_pc' = [client_pc EXCEPT ![c] = "request"]
    /\ since_last' = 0
    /\ client_call' = [client_call EXCEPT ![c].requests = @ + 1]

\* The semaphore is acquired; the caller sleeps out the rest of
\* request_delay, or sends its request at once.
SemaphoreAcquire(c) ==
    /\ client_pc[c] = "acquire"
    /\ semaphore > 0
    /\ semaphore' = semaphore - 1
    /\ IF since_last < request_delay
       THEN /\ client_pc' = [client_pc EXCEPT ![c] = "delay"]
            /\ sleep_left' = [sleep_left EXCEPT ![c] = RemainingDelay(since_last)]
            /\ UNCHANGED <<since_last, client_call>>
       ELSE /\ SendRequest(c)
            /\ UNCHANGED sleep_left
    /\ UNCHANGED client_attempt
    /\ UNCHANGED outsideClient

\* asyncio.sleep(request_delay - time_since_last) is over: the request is sent.
DelayOver(c) ==
    /\ client_pc[c] = "delay"
    /\ sleep_left[c] = 0
    /\ SendRequest(c)
    /\ UNCHANGED <<semaphore, client_attempt, sleep_left>>
    /\ UNCHANGED outsideClient

\* The request ends: the semaphore is released, and the caller returns its
\* products, returns [], or backs off 2 ** attempt seconds before the next
\* attempt; an exception no clause catches leaves search_products.
RequestEnds(c, response) ==
    /\ client_pc[c] = "request"
    /\ semaphore' = semaphore + 1
    /\ IF response \in Retried /\ client_attempt[c] # client_max_retries - 1
       THEN /\ client_pc' = [client_pc EXCEPT ![c] = "backoff"]
            /\ client_attempt' = [client_attempt EXCEPT ![c] = client_attempt[c] + 1]
            /\ sleep_left' = [sleep_left EXCEPT ![c] = Pow2(client_attempt[c])]
            /\ UNCHANGED client_call
       ELSE /\ client_pc' = [client_pc EXCEPT ![c] = "idle"]
            /\ client_attempt' = [client_attempt EXCEPT ![c] = 0]
            /\ client_call' = [client_call EXCEPT ![c].result =
                                  IF response = "ok" THEN "products"
                                  ELSE IF response \in Caught THEN "empty"
                                  ELSE "raised"]
            /\ UNCHANGED sleep_left
    /\ UNCHANGED since_last
    /\ UNCHANGED outsideClient

\* asyncio.sleep(2 ** attempt) is over: the next attempt begins.
BackoffOver(c) ==
    /\ client_pc[c] = "backoff"
    /\ sleep_left[c] = 0
    /\ client_pc' = [client_pc EXCEPT ![c] = "acquire"]
    /\ UNCHANGED <<semaphore, client_attempt, since_last, sleep_left, client_call>>
    /\ UNCHANGED outsideClient

\* One second passes.
ClientTick ==
    /\ since_last < request_delay \/ \E c \in Callers : sleep_left[c] > 0
    /\ since_last' = IF since_last < request_delay THEN since_last + 1 ELSE since_last
    /\ sleep_left' = [c \in Callers |-> IF sleep_left[c] > 0 THEN sleep_left[c] - 1 ELSE 0]
    /\ UNCHANGED <<semaphore, client_pc, client_attempt, client_call>>
    /\ UNCHANGED outsideClient

ClientNext ==
    \/ \E c \in Callers : SearchProductsCall(c)
    \/ \E c \in Callers : SemaphoreAcquire(c)
    \/ \E c \in Callers : DelayOver(c)
    \/ \E c \in Callers, response \in Responses : RequestEnds(c, response)
    \/ \E c \in Callers : BackoffOver(c)
    \/ ClientTick

(***************************************************************************)
(* The five-stage pipeline: _search_custom_pipeline and its stages.        *)
(***************************************************************************)
MaxCandidates == 2

\* A URL as urlparse sees it.
Url(netloc, pathname, query) == [netloc |-> netloc, path |-> pathname, query |-> query]

NoUrl == Url("", "", "")

NoBrand == "None"

\* The pages behind the harvested candidates: what a GET of pdp_url answers
\* and what the page declares.
Pages ==
    { [pdp_url |-> Url("shop.com", "/products/a", ""), http_status |-> 200,
       in_stock |-> TRUE, brand |-> "acme", price |-> 2, canonical_url |-> NoUrl],
      [pdp_url |-> Url("shop.com", "/products/b", "variant=1"), http_status |-> 200,
       in_stock |-> TRUE, brand |-> "other", price |-> 5,
       canonical_url |-> Url("shop.com", "/products/b", "variant=1")],
      [pdp_url |-> Url("other.com", "/products/a", ""), http_status |-> 404,
       in_stock |-> FALSE, brand |-> NoBrand, price |-> NoPrice, canonical_url |-> NoUrl],
      [pdp_url |-> Url("www.shop.com", "/products/c/", ""), http_status |-> 200,
       in_stock |-> FALSE, brand |-> "acme", price |-> 2, canonical_url |-> NoUrl],
      [pdp_url |-> Url("other.com", "/products/b", ""), http_status |-> 200,
       in_stock |-> TRUE, brand |-> NoBrand, price |-> NoPrice,
       canonical_url |-> Url("other.com", "/products/b", "")] }

\* The harvester returns candidates with distinct URLs.
Harvests ==
    {l \in ListsUpTo(Pages, MaxCandidates) :
        \A i, j \in DOMAIN l : i # j => l[i].pdp_url # l[j].pdp_url}

Brands == {NoBrand, "acme"}

MaxPrices == {3, 10}

\* HTTPPreFilter._check_single: the ProductDetails of one candidate.
check_single(page, i) ==
    [url |-> page.pdp_url,
     canonical_url |-> IF page.http_status # 200 THEN NoUrl
                       ELSE IF page.canonical_url = NoUrl THEN page.pdp_url
                       ELSE page.canonical_url,
     http_status |-> page.http_status,
     in_stock |-> page.http_status = 200 /\ page.in_stock,
     brand |-> IF page.http_status = 200 THEN page.brand ELSE NoBrand,
     price |-> IF page.http_status = 200 THEN page.price ELSE NoPrice,
     passed_prefilter |-> page.http_status = 200 /\ page.in_stock,
     from |-> i]

\* The tests of filter_batch on one ProductDetails.
KeepPrefiltered_All(details, brand, cap) == TRUE

KeepPrefiltered(details, brand, cap) ==
    /\ details.passed_prefilter
    /\ ~(brand # NoBrand /\ details.brand # NoBrand /\ details.brand # brand)
    /\ ~(details.price # NoPrice /\ details.price > cap)

\* HTTPPreFilter.filter_batch
filter_batch(cands, brand, cap) ==
    LET checked == [i \in 1..Len(cands) |-> check_single(cands[i], i)]
        Keep(d) == KeepPrefiltered(d, brand, cap)
    IN SelectSeq(checked, Keep)

\* `p.canonical_url or p.url`
CanonicalOrUrl(details) ==
    IF details.canonical_url # NoUrl THEN details.canonical_url ELSE details.url

\* _extract_shopify_handle finds /products/{handle} in the URL.
HasHandle(url) == url.path \in {"/products/a", "/products/b", "/products/c/"}

VariantIds == {"1", "2"}

\* _build_shopify_variant_url: the query is replaced by ?variant={id}.
build_shopify_variant_url(url, id) ==
    [url EXCEPT !.query = IF id = "1" THEN "variant=1" ELSE "variant=2"]

NoAnswer == [variant_id |-> "none", available |-> FALSE]

\* What a connector can answer for one URL: nothing, or the variant found
\* and whether it is available for sale.
ApiAnswers(url) ==
    {NoAnswer} \cup
    (IF HasHandle(url)
     THEN [variant_id : VariantIds, available : BOOLEAN]
     ELSE {})

\* RetailerAPIConnectors.check_batch: the VariantDetails of the answered URLs.
check_batch(urls, origins, answers) ==
    LET all == [i \in 1..Len(urls) |->
                  [url |-> build_shopify_variant_url(urls[i], answers[i].variant_id),
                   variant_id |-> answers[i].variant_id,
                   available_for_sale |-> answers[i].available,
                   api_verified |-> answers[i] # NoAnswer,
                   from |-> origins[i]]]
        Verified(v) == v.api_verified
    IN SelectSeq(all, Verified)

\* The values the field Product.source accepts.
ProductSources ==
    {"vector_db", "google_shopping", "asos", "affiliate", "scraper", "chatgpt",
     "web_search", "searchapi_shopping", "retailed_io", "openserp", "visual_scraping",
     "claude_web_search"}

\* Product(...) validates its fields: any other source raises ValidationError.
ProductRaises(source) == source \notin ProductSources

\* The Product built from an available VariantDetails.
ApiProduct(variant) ==
    [url |-> variant.url, source |-> "custom_pipeline_api", from |-> variant.from]

\* `if (p.canonical_url or p.url) not in api_verified_urls`
remaining_for_browser(details, variants) ==
    LET api_verified_urls == {variants[i].url : i \in DOMAIN variants}
        Unanswered(p) == CanonicalOrUrl(p) \notin api_verified_urls
    IN SelectSeq(details, Unanswered)

\* `remaining_for_browser[:10]`
BrowserLimit == 10

\* PlaywrightProductVerifier.verify_batch: no URL comes back verified.
verify_batch(urls) == <<>>

PipelineInit ==
    /\ pipe_pc = "start"
    /\ pipe_candidates = <<>>
    /\ required_brand = NoBrand
    /\ pipe_max_price = 0
    /\ prefiltered = <<>>
    /\ api_urls = <<>>
    /\ api_from = <<>>
    /\ api_verified = <<>>
    /\ browser_urls = <<>>
    /\ browser_from = <<>>
    /\ all_verified = <<>>
    /\ final_products = <<>>

\* Stage A: the harvester returns; without candidates the call returns [].
Harvest(harvested, brand, cap) ==
    /\ pipe_pc = "start"
    /\ pipe_candidates' = harvested
    /\ required_brand' = brand
    /\ pipe_max_price' = cap
    /\ pipe_pc' = IF harvested = <<>> THEN "returned" ELSE "stage_b"
    /\ UNCHANGED <<prefiltered, api_urls, api_from, api_verified, browser_urls,
                   browser_from, all_verified, final_products>>
    /\ UNCHANGED outsidePipeline

\* Stage B: filter_batch returns; the call returns [] or hands the
\* canonical URLs of what passed to check_batch.
PreFilter ==
    /\ pipe_pc = "stage_b"
    /\ LET passed == filter_batch(pipe_candidates, required_brand, pipe_max_price)
       IN /\ prefiltered' = passed
          /\ api_urls' = [i \in 1..Len(passed) |-> CanonicalOrUrl(passed[i])]
          /\ api_from' = [i \in 1..Len(passed) |-> passed[i].from]
          /\ pipe_pc' = IF passed = <<>> THEN "returned" ELSE "stage_c"
    /\ UNCHANGED <<pipe_candidates, required_brand, pipe_max_price, api_verified, browser_urls,
                   browser_from, all_verified, final_products>>
    /\ UNCHANGED outsidePipeline

\* Stage C: check_batch returns.  Building the Product of an available
\* variant raises, which ends the call; otherwise the products the API did
\* not answer for go to verify_batch, or, when there is none, the call
\* returns [].
ApiCheck ==
    /\ pipe_pc = "stage_c"
    /\ \E answers \in [1..Len(api_urls) -> UNION {ApiAnswers(api_urls[i]) : i \in 1..Len(api_urls)}] :
         /\ \A i \in 1..Len(api_urls) : answers[i] \in ApiAnswers(api_urls[i])
         /\ LET variants == check_batch(api_urls, api_from, answers)
                Available(v) == v.available_for_sale
                available == SelectSeq(variants, Available)
                api_products == [i \in 1..Len(available) |-> ApiProduct(available[i])]
                remaining == Take(remaining_for_browser(prefiltered, variants), BrowserLimit)
            IN /\ api_verified' = variants
               /\ IF \E i \in DOMAIN api_products : ProductRaises(api_products[i].source)
                  THEN /\ pipe_pc' = "raised"
                       /\ UNCHANGED <<all_verified, browser_urls, browser_from>>
                  ELSE /\ all_verified' = api_products
                       /\ browser_urls' =
                            [i \in 1..Len(remaining) |-> CanonicalOrUrl(remaining[i])]
                       /\ browser_from' = [i \in 1..Len(remaining) |-> remaining[i].from]
                       /\ pipe_pc' = IF remaining # <<>> THEN "stage_d"
                                     ELSE IF api_products = <<>> THEN "returned"
                                     ELSE "stage_e"
    /\ UNCHANGED <<pipe_candidates, required_brand, pipe_max_price, prefiltered, api_urls, api_from,
                   final_products>>
    /\ UNCHANGED outsidePipeline

\* Stage D: verify_batch returns; the call returns [], or would hand the
\* verified products to harden_batch if there were any.
BrowserVerify ==
    /\ pipe_pc = "stage_d"
    /\ all_verified' = all_verified \o verify_batch(browser_urls)
    /\ pipe_pc' = IF all_verified' = <<>> THEN "returned" ELSE "stage_e"
    /\ UNCHANGED <<pipe_candidates, required_brand, pipe_max_price, prefiltered, api_urls, api_from,
                   api_verified, browser_urls, browser_from, final_products>>
    /\ UNCHANGED outsidePipeline

PipelineNext ==
    \/ \E harvested \in Harvests, brand \in Brands, cap \in MaxPrices :
         Harvest(harvested, brand, cap)
    \/ PreFilter
    \/ ApiCheck
    \/ BrowserVerify

(***************************************************************************)
(* One application of _rank_products to two candidates that differ in      *)
(* price only: one at the soft cap, one a unit above it.                   *)
(***************************************************************************)
\* Largest hard cap of a budget.
MaxCap == 5

\* Budgets with 0 < soft_cap < hard_cap.
Budgets == {[soft_cap |-> s, hard_cap |-> h] : s \in 1..(MaxCap - 1), h \in 2..MaxCap} \cap
           {b \in [soft_cap : 1..MaxCap, hard_cap : 1..MaxCap] : b.soft_cap < b.hard_cap}

\* What the two candidates have in common.
RankProfiles ==
    [url : {"u1"}, relevance_score : {NoScore, 5, 10},
     availability_status : {"in_stock", "out_of_stock"}, retailer : {"Zara"},
     source : {"asos", "google_shopping"}]

Priced(profile, price) ==
    [url |-> profile.url, price |-> price, relevance_score |-> profile.relevance_score,
     availability_status |-> profile.availability_status, retailer |-> profile.retailer,
     source |-> profile.source]

\* The candidate at the soft cap and the one a unit above, in either order.
RankPairs(budget) ==
    UNION {{<<Priced(f, budget.soft_cap), Priced(f, budget.soft_cap + 1)>>,
            <<Priced(f, budget.soft_cap + 1), Priced(f, budget.soft_cap)>>} :
           f \in RankProfiles}

RankInit ==
    /\ rank_pc = "input"
    /\ rank_budget \in Budgets
    /\ rank_in \in RankPairs(rank_budget)
    /\ rank_out = <<>>
    /\ rank_scores = <<>>

\* _rank_products is not called.
RankQuiet ==
    /\ rank_pc = "input"
    /\ rank_budget = Budget
    /\ rank_in = <<>>
    /\ rank_out = <<>>
    /\ rank_scores = <<>>

\* _rank_products(rank_in, descriptor, rank_budget, filters)
RankApply ==
    /\ rank_pc = "input"
    /\ rank_scores' = [i \in 1..Len(rank_in) |-> RankScore(rank_in[i], rank_budget)]
    /\ rank_out' = rank_products(rank_in, rank_budget)
    /\ rank_pc' = "ranked"
    /\ UNCHANGED <<rank_budget, rank_in>>
    /\ UNCHANGED outsideRank

RankNext == RankApply

\* Products of two sources with neighbouring relevance scores and any price.
TieProducts ==
    [url : {"u1"}, price : {NoPrice} \cup 1..MaxCap, relevance_score : {NoScore, 1, 2},
     availability_status : {"in_stock"}, retailer : {"Zara"},
     source : {"searchapi_shopping", "google_shopping"}]

\* _rank_products is handed two products of different sources.
RankTiesInit ==
    /\ rank_pc = "input"
    /\ rank_budget \in Budgets
    /\ rank_in \in {pair \in {<<a, b>> : a, b \in TieProducts} :
                       pair[1].source # pair[2].source}
    /\ rank_out = <<>>
    /\ rank_scores = <<>>


(***************************************************************************)
(* HTTPPreFilter: _check_single, _parse_json_ld, _parse_offers and the     *)
(* filter loop of filter_batch.  Strings are sequences of characters, so   *)
(* that `in` is the substring test Python makes.                           *)
(***************************************************************************)
\* Most offers in the JSON-LD of a page.
MaxOffers == 2

\* None, for a string.
None == <<"None">>

\* needle in hay, for two Python strings.
Contains(needle, hay) ==
    \E i \in 1..(Len(hay) - Len(needle) + 1) :
        SubSeq(hay, i, i + Len(needle) - 1) = needle

\* str.lower(), character by character.
UpperCase == <<"A", "B", "C", "D", "E", "F", "G", "H", "I", "J", "K", "L", "M",
               "N", "O", "P", "Q", "R", "S", "T", "U", "V", "W", "X", "Y", "Z">>

LowerCase == <<"a", "b", "c", "d", "e", "f", "g", "h", "i", "j", "k", "l", "m",
               "n", "o", "p", "q", "r", "s", "t", "u", "v", "w", "x", "y", "z">>

LowerChar(c) ==
    IF \E i \in DOMAIN UpperCase : UpperCase[i] = c
    THEN LowerCase[CHOOSE i \in DOMAIN UpperCase : UpperCase[i] = c]
    ELSE c

lower(s) == [i \in DOMAIN s |-> LowerChar(s[i])]

AVAILABILITY_IN_STOCK ==
    {<<"i", "n", "s", "t", "o", "c", "k">>,
     <<"i", "n", " ", "s", "t", "o", "c", "k">>,
     <<"h", "t", "t", "p", "s", ":", "/", "/", "s", "c", "h", "e", "m", "a", ".", "o", "r", "g", "/", "i", "n", "s", "t", "o", "c", "k">>,
     <<"a", "v", "a", "i", "l", "a", "b", "l", "e">>,
     <<"i", "n", "_", "s", "t", "o", "c", "k">>}

AVAILABILITY_OUT_OF_STOCK ==
    {<<"o", "u", "t", "o", "f", "s", "t", "o", "c", "k">>,
     <<"o", "u", "t", " ", "o", "f", " ", "s", "t", "o", "c", "k">>,
     <<"h", "t", "t", "p", "s", ":", "/", "/", "s", "c", "h", "e", "m", "a", ".", "o", "r", "g", "/", "o", "u", "t", "o", "f", "s", "t", "o", "c", "k">>,
     <<"s", "o", "l", "d", "o", "u", "t">>,
     <<"s", "o", "l", "d", " ", "o", "u", "t">>,
     <<"u", "n", "a", "v", "a", "i", "l", "a", "b", "l", "e">>,
     <<"o", "u", "t", "_", "o", "f", "_", "s", "t", "o", "c", "k">>}

\* Values of offer['availability'] on a page; NoKey when the key is absent.
NoKey == <<"absent">>

Availabilities ==
    {NoKey,
     <<"I", "n", "S", "t", "o", "c", "k">>,
     <<"O", "u", "t", "O", "f", "S", "t", "o", "c", "k">>,
     <<"U", "n", "a", "v", "a", "i", "l", "a", "b", "l", "e">>,
     <<"D", "i", "s", "c", "o", "n", "t", "i", "n", "u", "e", "d">>}

\* Values of offer['price'] as the JSON has them: absent, not a number, or a
\* number.
OfferPrices == {"absent", "n/a", "1", "3"}

Offers == [price : OfferPrices, availability : Availabilities]

PageBrands == {None, <<"N", "i", "k", "e">>, <<"A", "d", "i", "d", "a", "s">>}

\* The Product schema of a page: its brand and its offers.
JsonLd == [found : {TRUE}, brand : PageBrands,
           offers : UNION {[1..n -> Offers] : n \in 0..MaxOffers}]

\* _extract_json_ld returns None: the page has no Product schema.
NoJsonLd == [found |-> FALSE, brand |-> None, offers |-> <<>>]

\* What client.get(url) and the parse produce: an exception, or a response
\* with a status and, on 200, possibly a Product schema.
ResponsePages ==
    [outcome : {"timeout", "error"}, status : {0}, json_ld : {NoJsonLd}] \cup
    [outcome : {"response"}, status : {404}, json_ld : {NoJsonLd}] \cup
    [outcome : {"response"}, status : {200}, json_ld : {NoJsonLd} \cup JsonLd]

\* ProductDetails(url=url)
NewDetails ==
    [http_status |-> 0, brand |-> None, price |-> NoPrice, availability |-> None,
     in_stock |-> FALSE, json_ld_found |-> FALSE, passed_prefilter |-> FALSE,
     rejected |-> FALSE]

\* float(offer['price']) inside try/except (ValueError, TypeError)
ParsedPrice(offer, d) ==
    CASE offer.price = "1" -> 1
      [] offer.price = "3" -> 3
      [] OTHER -> d.price

\* The body of the loop of _parse_offers up to the break, for one offer.
ParseOffer(offer, d) ==
    LET priced == [d EXCEPT !.price = ParsedPrice(offer, d)]
        availability == lower(offer.availability)
    IN  IF offer.availability = NoKey
        THEN priced
        ELSE [priced EXCEPT
                !.availability = availability,
                !.in_stock =
                    IF \E stock_term \in AVAILABILITY_IN_STOCK : Contains(stock_term, availability)
                    THEN TRUE
                    ELSE IF \E oos_term \in AVAILABILITY_OUT_OF_STOCK : Contains(oos_term, availability)
                         THEN FALSE
                         ELSE @]

\* _parse_offers: the offers in order, stopping after the first one that
\* leaves details.price set.
RECURSIVE parse_offers(_, _)
parse_offers(offers_list, d) ==
    IF offers_list = <<>>
    THEN d
    ELSE LET after == ParseOffer(Head(offers_list), d)
         IN  IF after.price # NoPrice
             THEN after
             ELSE parse_offers(Tail(offers_list), after)

\* _parse_json_ld, as far as brand and offers go.
parse_json_ld(json_ld, d) ==
    parse_offers(json_ld.offers, [d EXCEPT !.brand = json_ld.brand])

\* _check_single
check_single_response(p) ==
    IF p.outcome # "response"
    THEN [NewDetails EXCEPT !.rejected = TRUE]
    ELSE IF p.status # 200
         THEN [NewDetails EXCEPT !.http_status = p.status, !.rejected = TRUE]
         ELSE LET found == IF ~p.json_ld.found
                           THEN [NewDetails EXCEPT !.http_status = 200]
                           ELSE parse_json_ld(p.json_ld,
                                    [NewDetails EXCEPT !.http_status = 200,
                                                       !.json_ld_found = TRUE])
              IN  IF found.in_stock
                  THEN [found EXCEPT !.passed_prefilter = TRUE]
                  ELSE [found EXCEPT !.rejected = TRUE]

\* The brand filter of filter_batch drops the candidate.
BrandMismatch(d, brand) ==
    /\ brand # None
    /\ d.brand # None
    /\ ~Contains(lower(brand), lower(d.brand))

\* The price filter of filter_batch drops the candidate.
PriceTooHigh(d, price) ==
    /\ price # NoPrice
    /\ d.price # NoPrice
    /\ d.price > price

PrefilterInit ==
    filter_call \in [pc : {"input"}, fetched : ResponsePages,
                     required_brand : {None, <<"N", "I", "K", "E">>},
                     max_price : {NoPrice, 2}, details : {NewDetails}, passed : {FALSE}]

\* results = await asyncio.gather(...): _check_single has run for the URL.
CheckSingle ==
    /\ filter_call.pc = "input"
    /\ filter_call' = [filter_call EXCEPT
                          !.details = check_single_response(filter_call.fetched),
                          !.pc = "checked"]
    /\ UNCHANGED outsidePrefilter

\* The loop over results in filter_batch, for the one result.
FilterResult ==
    /\ filter_call.pc = "checked"
    /\ LET result == filter_call.details
       IN  IF ~result.passed_prefilter
           THEN filter_call' = [filter_call EXCEPT !.passed = FALSE, !.pc = "filtered"]
           ELSE IF \/ BrandMismatch(result, filter_call.required_brand)
                   \/ PriceTooHigh(result, filter_call.max_price)
                THEN filter_call' =
                         [filter_call EXCEPT
                             !.details = [result EXCEPT !.passed_prefilter = FALSE,
                                                        !.rejected = TRUE],
                             !.passed = FALSE,
                             !.pc = "filtered"]
                ELSE filter_call' = [filter_call EXCEPT !.passed = TRUE, !.pc = "filtered"]
    /\ UNCHANGED outsidePrefilter

PrefilterNext == CheckSingle \/ FilterResult


(***************************************************************************)
(* retailer_patterns (detect_retailer, get_all_selectors,                  *)
(* is_out_of_stock_text) and LinkVerificationAgent                         *)
(* (verify_product_availability, _perform_page_checks).  Texts that are    *)
(* searched are sequences of characters; selectors are only compared and   *)
(* are strings.  Prices are in cents.                                      *)
(***************************************************************************)
\* RETAILER_PATTERNS, in the order of the dict: two of its thirteen entries.
RETAILER_PATTERNS ==
 <<
    [name |-> "Macys",
     domain_patterns |->
        <<<<"m", "a", "c", "y", "s", ".", "c", "o", "m">>>>,
     add_to_cart_selectors |->
        <<"#addToBagButton",
          "button[data-auto='add-to-bag']",
          "button:has-text('Add to Bag')",
          "[id*='addToBag']">>,
     price_selectors |->
        <<"[data-auto='product-price']",
          ".price",
          "[class*='product-price']",
          "span[class*='price']">>,
     out_of_stock_patterns |->
        <<<<"o", "u", "t", " ", "o", "f", " ", "s", "t", "o", "c", "k">>,
          <<"s", "o", "l", "d", " ", "o", "u", "t">>,
          <<"u", "n", "a", "v", "a", "i", "l", "a", "b", "l", "e">>,
          <<"n", "o", "t", " ", "a", "v", "a", "i", "l", "a", "b", "l", "e", " ", "o", "n", "l", "i", "n", "e">>>>,
     product_title_selectors |->
        <<"h1[data-auto='product-title']",
          "h1.product-title">>],
    [name |-> "ASOS",
     domain_patterns |->
        <<<<"a", "s", "o", "s", ".", "c", "o", "m">>>>,
     add_to_cart_selectors |->
        <<"[data-test-id='add-button']",
          "button[data-auto-id='add-to-bag']",
          "button:has-text('Add to bag')",
          "[class*='add-button']">>,
     price_selectors |->
        <<"[data-testid='current-price']",
          "[class*='product-price']",
          "span[data-id='current-price']">>,
     out_of_stock_patterns |->
        <<<<"o", "u", "t", " ", "o", "f", " ", "s", "t", "o", "c", "k">>,
          <<"s", "o", "l", "d", " ", "o", "u", "t">>,
          <<"n", "o", "t", " ", "a", "v", "a", "i", "l", "a", "b", "l", "e">>>>,
     product_title_selectors |->
        <<"h1[class*='product-title']",
          "h1">>]
 >>

UNIVERSAL_PATTERNS ==
    [name |-> "Universal",
     domain_patterns |->
        <<<<"*">>>>,
     add_to_cart_selectors |->
        <<"button:has-text('Add to Cart')",
          "button:has-text('Add to Bag')",
          "button:has-text('Add to Basket')",
          "button:has-text('Buy Now')",
          "button:has-text('Purchase')",
          "[class*='add-to-cart']",
          "[class*='add-to-bag']",
          "[class*='addtocart']",
          "[class*='buy-button']",
          "[class*='purchase-button']",
          "[id*='add-to-cart']",
          "[id*='addToCart']",
          "[id*='buy-now']",
          "[data-test*='add']",
          "[data-testid*='add']",
          "[data-qa*='add']",
          "[aria-label*='Add to Cart']",
          "[aria-label*='Add to Bag']",
          "button[type='submit']:has-text('cart')",
          "button[type='submit']:has-text('bag')">>,
     price_selectors |->
        <<"[class*='price']",
          "[class*='product-price']",
          "[class*='current-price']",
          "[class*='sale-price']",
          "[id*='price']",
          "[data-test*='price']",
          "[data-testid*='price']",
          "[data-price]",
          "[itemprop='price']",
          "[itemtype*='Offer'] [itemprop='price']",
          "span:has-text('$')",
          "div:has-text('$')",
          ".money",
          ".amount">>,
     out_of_stock_patterns |->
        <<<<"o", "u", "t", " ", "o", "f", " ", "s", "t", "o", "c", "k">>,
          <<"s", "o", "l", "d", " ", "o", "u", "t">>,
          <<"u", "n", "a", "v", "a", "i", "l", "a", "b", "l", "e">>,
          <<"n", "o", "t", " ", "a", "v", "a", "i", "l", "a", "b", "l", "e">>,
          <<"c", "u", "r", "r", "e", "n", "t", "l", "y", " ", "u", "n", "a", "v", "a", "i", "l", "a", "b", "l", "e">>,
          <<"t", "e", "m", "p", "o", "r", "a", "r", "i", "l", "y", " ", "u", "n", "a", "v", "a", "i", "l", "a", "b", "l", "e">>,
          <<"n", "o", "t", "i", "f", "y", " ", "m", "e">>,
          <<"n", "o", "t", "i", "f", "y", " ", "w", "h", "e", "n", " ", "a", "v", "a", "i", "l", "a", "b", "l", "e">>,
          <<"j", "o", "i", "n", " ", "w", "a", "i", "t", "l", "i", "s", "t">>,
          <<"a", "g", "o", "t", "a", "d", "o">>,
          <<"n", "o", " ", "d", "i", "s", "p", "o", "n", "i", "b", "l", "e">>,
          <<"é", "p", "u", "i", "s", "é">>,
          <<"n", "o", "n", " ", "d", "i", "s", "p", "o", "n", "i", "b", "l", "e">>,
          <<"a", "u", "s", "v", "e", "r", "k", "a", "u", "f", "t">>,
          <<"n", "i", "c", "h", "t", " ", "v", "e", "r", "f", "ü", "g", "b", "a", "r">>>>,
     product_title_selectors |->
        <<"h1[class*='product']",
          "h1[class*='title']",
          "h1[data-test*='title']",
          "h1[itemprop='name']",
          "h1">>]

\* detect_retailer: the first retailer, in dict order, one of whose domain
\* patterns occurs in the lower-cased URL; the universal pattern otherwise.
Matches(pattern, url_lower) ==
    \E i \in DOMAIN pattern.domain_patterns : Contains(pattern.domain_patterns[i], url_lower)

detect_retailer(url) ==
    LET url_lower == lower(url)
        hits == {r \in DOMAIN RETAILER_PATTERNS : Matches(RETAILER_PATTERNS[r], url_lower)}
    IN  IF hits = {}
        THEN UNIVERSAL_PATTERNS
        ELSE RETAILER_PATTERNS[CHOOSE r \in hits : \A other \in hits : r <= other]

\* getattr(pattern, f"{selector_type}_selectors", [])
SelectorsAttr(pattern, selector_type) ==
    LET attr == selector_type \o "_selectors"
    IN  IF attr \in DOMAIN pattern THEN pattern[attr] ELSE <<>>

\* The loop of get_all_selectors: each universal selector is appended unless
\* it is in the combined list already.
RECURSIVE AppendNew(_, _)
AppendNew(combined, universal_selectors) ==
    IF universal_selectors = <<>>
    THEN combined
    ELSE LET selector == Head(universal_selectors)
         IN  AppendNew(IF \E i \in DOMAIN combined : combined[i] = selector
                       THEN combined
                       ELSE Append(combined, selector),
                       Tail(universal_selectors))

get_all_selectors(pattern, selector_type) ==
    AppendNew(SelectorsAttr(pattern, selector_type),
              SelectorsAttr(UNIVERSAL_PATTERNS, selector_type))

\* is_out_of_stock_text
is_out_of_stock_text(text, patterns) ==
    \E i \in DOMAIN patterns : Contains(lower(patterns[i]), lower(text))

\* The text patterns _check_element_exists falls back to.
CartTextPatterns ==
    {<<"a", "d", "d", " ", "t", "o", " ", "c", "a", "r", "t">>,
     <<"a", "d", "d", " ", "t", "o", " ", "b", "a", "g">>,
     <<"a", "d", "d", "-", "t", "o", "-", "c", "a", "r", "t">>,
     <<"a", "d", "d", "t", "o", "c", "a", "r", "t">>,
     <<"b", "u", "y", " ", "n", "o", "w">>,
     <<"a", "d", "d", "_", "t", "o", "_", "c", "a", "r", "t">>}

\* _check_element_exists: a selector of the list is found on the page (by
\* query_selector or in the HTML), or the page text has one of the cart
\* phrases.
check_element_exists(s, selectors) ==
    \/ \E i \in DOMAIN selectors : selectors[i] \in s.elements
    \/ \E p \in CartTextPatterns : Contains(p, lower(s.page_text))

\* _extract_price: the price read from the first price element found whose
\* text yields one, else the price the regular expressions find in the page
\* text; NoPrice is None.
extract_price(s, price_selectors) ==
    IF /\ \E i \in DOMAIN price_selectors : price_selectors[i] \in s.elements
       /\ s.element_price \notin {NoPrice, 0}
    THEN s.element_price
    ELSE s.text_price

\* A tolerance of 20% instead of 10%.
PriceMatches_Wide(actual_price, expected) ==
    LET diff == IF actual_price >= expected THEN actual_price - expected
                ELSE expected - actual_price
    IN  {diff * 5 <= expected}

\* `price_diff <= 0.10` for abs(actual - expected) / expected in floating
\* point: exact away from the boundary, either answer on it (with
\* expected 1.10, an actual price of 1.21 is accepted and 0.99 is not).
PriceMatches(actual_price, expected) ==
    LET diff == IF actual_price >= expected THEN actual_price - expected
                ELSE expected - actual_price
    IN  IF diff * 10 < expected THEN {TRUE}
        ELSE IF diff * 10 = expected THEN BOOLEAN
        ELSE {FALSE}

\* results, as _perform_page_checks starts with it
NewChecks ==
    [has_add_to_cart |-> FALSE, is_in_stock |-> TRUE, price_match |-> FALSE,
     actual_price |-> NoPrice]

\* `if expected_price:` and `if actual_price:`
Truthy(price) == price \notin {NoPrice, 0}

\* The dicts _perform_page_checks can return for a page.
perform_page_checks(s, pattern, expected) ==
    LET cart == check_element_exists(s, get_all_selectors(pattern, "add_to_cart"))
        stock == ~is_out_of_stock_text(s.page_text, get_all_selectors(pattern, "out_of_stock"))
        actual_price == extract_price(s, get_all_selectors(pattern, "price"))
        checked == [NewChecks EXCEPT !.has_add_to_cart = cart, !.is_in_stock = stock]
    IN  IF Truthy(expected) /\ Truthy(actual_price)
        THEN {[checked EXCEPT !.actual_price = actual_price, !.price_match = m] :
                 m \in PriceMatches(actual_price, expected)}
        ELSE {checked}

\* VerificationResult(url=url, is_valid=False, error_message=...)
FailedVerification ==
    [is_valid |-> FALSE, has_add_to_cart |-> FALSE, is_in_stock |-> FALSE,
     price_match |-> FALSE, actual_price |-> NoPrice, error |-> TRUE]

\* The result verify_product_availability builds from page_checks.
VerificationOf(checks, expected) ==
    [is_valid |-> /\ checks.has_add_to_cart
                  /\ checks.is_in_stock
                  /\ (IF Truthy(expected) THEN checks.price_match ELSE TRUE),
     has_add_to_cart |-> checks.has_add_to_cart,
     is_in_stock |-> checks.is_in_stock,
     price_match |-> checks.price_match,
     actual_price |-> checks.actual_price,
     error |-> FALSE]

\* URLs handed to the agent.
VerifyUrls ==
    {<<"h", "t", "t", "p", "s", ":", "/", "/", "w", "w", "w", ".", "A", "S", "O", "S", ".", "c", "o", "m", "/", "p", "/", "1">>,
     <<"h", "t", "t", "p", "s", ":", "/", "/", "w", "w", "w", ".", "m", "a", "c", "y", "s", ".", "c", "o", "m", "/", "p", "/", "2">>,
     <<"h", "t", "t", "p", "s", ":", "/", "/", "s", "h", "o", "p", ".", "e", "x", "a", "m", "p", "l", "e", "/", "p", "/", "3">>,
     <<"h", "t", "t", "p", "s", ":", "/", "/", "s", "h", "o", "p", ".", "e", "x", "a", "m", "p", "l", "e", "/", "p", "/", "4", "?", "r", "e", "f", "=", "a", "s", "o", "s", ".", "c", "o", "m">>}

\* Page texts.
PageTexts ==
    {<<>>,
     <<"A", "d", "d", " ", "t", "o", " ", "C", "a", "r", "t">>,
     <<"S", "o", "l", "d", " ", "O", "u", "t">>,
     <<"S", "o", "l", "d", " ", "o", "u", "t", " ", "-", " ", "A", "d", "d", " ", "t", "o", " ", "b", "a", "g">>,
     <<"N", "o", "t", " ", "a", "v", "a", "i", "l", "a", "b", "l", "e", " ", "o", "n", "l", "i", "n", "e", ".", " ", "B", "u", "y", " ", "n", "o", "w">>,
     <<"A", "g", "o", "t", "a", "d", "o">>,
     <<"I", "n", " ", "s", "t", "o", "c", "k">>}

\* Elements that pages may have, by a selector that finds them.
PageElements == {"[class*='add-button']", "[id*='add-to-cart']", "[class*='price']"}

\* What the browser finds: whether navigation works, the body text, the
\* elements, the price in the price element and the price in the text.
Sites ==
    [reachable : BOOLEAN, page_text : PageTexts, elements : SUBSET PageElements,
     element_price : {NoPrice, 9900}, text_price : {NoPrice, 0, 8900, 9000, 11000, 11100}]

VerifyInit ==
    verify_call \in [pc : {"input"}, url : VerifyUrls, expected_price : {NoPrice, 0, 10000},
                     context : BOOLEAN, site : Sites, retailer_pattern : {UNIVERSAL_PATTERNS},
                     page_checks : {NewChecks}, result : {FailedVerification}]

\* verify_product_availability up to page.goto: the retailer is detected and,
\* with a context, the page is opened; a navigation error ends the call.
VerifyNavigate ==
    /\ verify_call.pc = "input"
    /\ verify_call' =
          [verify_call EXCEPT
              !.retailer_pattern = detect_retailer(verify_call.url),
              !.result = IF verify_call.context /\ ~verify_call.site.reachable
                         THEN FailedVerification ELSE @,
              !.pc = IF verify_call.context /\ ~verify_call.site.reachable
                     THEN "done" ELSE "loaded"]
    /\ UNCHANGED outsideVerify

\* The rest of verify_product_availability: _perform_page_checks, which
\* returns its initial dict without a page or when reading the page raises,
\* and the result built from it.
VerifyChecks ==
    /\ verify_call.pc = "loaded"
    /\ \E read_ok \in BOOLEAN :
         \E checks \in IF verify_call.context /\ read_ok
                       THEN perform_page_checks(verify_call.site,
                                                verify_call.retailer_pattern,
                                                verify_call.expected_price)
                       ELSE {NewChecks} :
            verify_call' =
                [verify_call EXCEPT
                    !.page_checks = checks,
                    !.result = VerificationOf(checks, verify_call.expected_price),
                    !.pc = "done"]
    /\ UNCHANGED outsideVerify

VerifyNext == VerifyNavigate \/ VerifyChecks


(***************************************************************************)
(* search_multi_source from "STEP 1: Link Verification" to the return, on  *)
(* lists long enough for the limit of 30 to apply.                         *)
(***************************************************************************)
\* Most products beyond the limit of 30 in one list.
MaxExtra == 2

\* The sources found n products with distinct URLs.
StepUrl(i) == "p" \o ToString(i)

StepUrls == {StepUrl(i) : i \in 1..(VerifyLimit + MaxExtra)}

StepProduct(i, score) ==
    [url |-> StepUrl(i), price |-> Budget.soft_cap, relevance_score |-> score,
     availability_status |-> "in_stock", retailer |-> "Zara", source |-> "google_shopping"]

\* Places of a list of n products where something special may sit: its ends
\* and the two sides of the limit.
Marked(n) == {1, VerifyLimit, VerifyLimit + 1, n} \cap 1..n

\* Lists of n products that all have relevance 2, except for the marked
\* places in `low`, which have the relevance `score`.
StepLists ==
    {[i \in 1..n |-> StepProduct(i, IF i \in low THEN score ELSE 2)] :
        n \in (VerifyLimit - 1)..(VerifyLimit + MaxExtra),
        low \in SUBSET {1, VerifyLimit, VerifyLimit + 1, VerifyLimit + MaxExtra},
        score \in {NoScore, 1, 2, 3}}

\* A connected cache that holds a verification of the products at `places`.
StepCache(products, places) ==
    [u \in StepUrls |->
        IF \E i \in places \cap DOMAIN products : products[i].url = u
        THEN Entry(products[CHOOSE i \in places \cap DOMAIN products : products[i].url = u],
                   NoTTL)
        ELSE NoEntry]

\* Verdicts of batch_verify_products on n products: every product valid, none
\* valid, a single marked one valid, or a single marked one not valid.
Verdicts(n) ==
    {[i \in 1..n |-> TRUE], [i \in 1..n |-> FALSE]}
        \cup {[i \in 1..n |-> i = j] : j \in Marked(n)}
        \cup {[i \in 1..n |-> i # j] : j \in Marked(n)}

StepInit ==
    search_step \in
        {[pc |-> "input", all_products |-> products,
          cache |-> StepCache(products, places), args |-> args,
          products_to_verify |-> <<>>, valid |-> <<>>, path |-> "none",
          returned |-> <<>>] :
            products \in StepLists,
            places \in {{}, {1}, {VerifyLimit}, {VerifyLimit + 1}},
            args \in {[k |-> 1, retailers_allowlist |-> NoAllowlist],
                      [k |-> 50, retailers_allowlist |-> NoAllowlist]}}

\* The verification step with a connected cache, then dedup, filters,
\* ranking and top k.
VerificationStep ==
    /\ search_step.pc = "input"
    /\ LET all_products == search_step.all_products
           products_to_verify == ProductsToVerify(all_products, TRUE, TRUE, search_step.cache)
           cached_products == CachedProducts(all_products, TRUE, TRUE, search_step.cache)
       IN \E read_ok \in BackendAnswers(TRUE) :
          IF ~read_ok
          THEN search_step' = [search_step EXCEPT !.path = "cache_error",
                                                  !.returned = <<>>,
                                                  !.pc = "returned"]
          ELSE \E valid \in Verdicts(Len(products_to_verify)) :
               LET verified_products == VerifiedProducts(products_to_verify, valid)
                   candidates == Candidates(all_products, TRUE, valid, search_step.args.k,
                                            TRUE, search_step.cache)
               IN search_step' =
                      [search_step EXCEPT
                          !.products_to_verify = products_to_verify,
                          !.valid = valid,
                          !.path = IF cached_products \o verified_products = <<>>
                                   THEN "fallback"
                                   ELSE IF verified_products = <<>> THEN "cache"
                                   ELSE "verified",
                          !.returned = RankedTopK(candidates, search_step.args),
                          !.pc = "returned"]
    /\ UNCHANGED outsideStep

StepNext == VerificationStep

(***************************************************************************)
(* Specifications.                                                         *)
(***************************************************************************)
\* No OpenSERPManager is constructed: nothing calls start() and no
\* monitoring task exists.
SupervisorQuiet ==
    /\ is_running = FALSE
    /\ restart_count = 0
    /\ process = "none"
    /\ orphan = "none"
    /\ start_pc = <<>>
    /\ via_ensure = <<>>
    /\ manager_started = FALSE
    /\ stop_pc = "idle"
    /\ manual_restart = FALSE
    /\ monitor_pc = <<>>
    /\ monitor_task = 0
    /\ consecutive_failures = <<>>
    /\ attempts = 0
    /\ gave_up = FALSE
    /\ died = FALSE
    /\ stopped = FALSE

\* No OpenSERPClient is in use: there are no callers.
ClientQuiet ==
    /\ semaphore = Semaphore(max_concurrent_requests)
    /\ client_pc = <<>>
    /\ client_attempt = <<>>
    /\ since_last = request_delay
    /\ sleep_left = <<>>
    /\ client_call = <<>>

\* No pipeline call is made.
PipelineQuiet == PipelineInit

\* filter_batch is not called.
PrefilterQuiet == filter_call = [pc |-> "idle"]

\* verify_product_availability is not called.
VerifyQuiet == verify_call = [pc |-> "idle"]

\* No search on a long list is made.
StepQuiet == search_step = [pc |-> "idle"]

\* The cache is not used on its own.
CacheQuiet ==
    /\ deadline = <<>>
    /\ expired = {}
    /\ last_read = NoRead
    /\ written = <<>>
    /\ invalidated = {}

\* The browser pool under batches of verification tasks.
InitPool == PoolInit /\ SearchQuiet /\ DedupQuiet /\ CacheQuiet /\ SupervisorQuiet /\ ClientQuiet /\ PipelineQuiet /\ RankQuiet /\ PrefilterQuiet /\ VerifyQuiet /\ StepQuiet

SpecPool == InitPool /\ [][PoolNext]_vars

\* The same under fair scheduling: the event loop runs every coroutine that
\* can go on, a verification attempt ends, and gather returns once its
\* tasks are done. Starting a batch and closing the pool are the caller's.
PoolFairness ==
    /\ \A t \in Tasks :
         /\ WF_vars(AcquireContext(t))
         /\ WF_vars(InitLaunch(t))
         /\ WF_vars(InitContextPool(t))
         /\ WF_vars(QueueGet(t))
         /\ WF_vars(VerifyAttempt(t))
         /\ WF_vars(ReleaseContext(t))
    /\ WF_vars(BatchReturn)

SpecPoolFair == InitPool /\ [][PoolNext]_vars /\ PoolFairness

\* A service instance under a sequence of search_multi_source calls.
InitSearch == SearchInit /\ PoolInit /\ DedupQuiet /\ CacheQuiet /\ SupervisorQuiet /\ ClientQuiet /\ PipelineQuiet /\ RankQuiet /\ PrefilterQuiet /\ VerifyQuiet /\ StepQuiet

SpecSearch == InitSearch /\ [][SearchNext]_vars

\* The application has connected the service's cache before the first
\* search (`await service.verification_cache.connect()`).
SearchCachedInit ==
    /\ enabled \in Deployments
    /\ enable_link_verification = TRUE
    /\ failed_sources = {}
    /\ cache_client = TRUE
    /\ cache = [u \in Urls |-> NoEntry]
    /\ call_pc = "idle"
    /\ call_args = NoArgs
    /\ started = {}
    /\ results = [s \in Sources |-> NoResult]
    /\ returned = <<>>
    /\ raised = FALSE
    /\ path = "none"
    /\ over_cap_dropped = {}
    /\ verified_ok = {}
    /\ reverified = {}
    /\ returned_verified = {}

InitSearchCached == SearchCachedInit /\ PoolInit /\ DedupQuiet /\ CacheQuiet /\ SupervisorQuiet /\ ClientQuiet /\ PipelineQuiet /\ RankQuiet /\ PrefilterQuiet /\ VerifyQuiet /\ StepQuiet

SpecSearchCached == InitSearchCached /\ [][SearchNext]_vars

\* _deduplicate_products applied to one list.
InitDedup == DedupInit /\ PoolInit /\ SearchQuiet /\ CacheQuiet /\ SupervisorQuiet /\ ClientQuiet /\ PipelineQuiet /\ RankQuiet /\ PrefilterQuiet /\ VerifyQuiet /\ StepQuiet

SpecDedup == InitDedup /\ [][DedupNext]_vars

\* A LinkVerificationCache under writes, reads, invalidations and time.
InitCache ==
    /\ CacheInit
    /\ PoolInit
    /\ DedupQuiet
    /\ SupervisorQuiet
    /\ enabled = {}
    /\ enable_link_verification = FALSE
    /\ failed_sources = {}
    /\ call_pc = "idle"
    /\ call_args = NoArgs
    /\ started = {}
    /\ results = [s \in Sources |-> NoResult]
    /\ returned = <<>>
    /\ raised = FALSE
    /\ path = "none"
    /\ over_cap_dropped = {}
    /\ verified_ok = {}
    /\ reverified = {}
    /\ returned_verified = {}
    /\ ClientQuiet
    /\ PipelineQuiet
    /\ RankQuiet
    /\ PrefilterQuiet
    /\ VerifyQuiet
    /\ StepQuiet

SpecCache == InitCache /\ [][CacheNext]_vars

\* An OpenSERPManager, its monitor task and the aggregator process.
InitSupervisor == SupervisorInit /\ PoolInit /\ SearchQuiet /\ DedupQuiet /\ CacheQuiet /\ ClientQuiet /\ PipelineQuiet /\ RankQuiet /\ PrefilterQuiet /\ VerifyQuiet /\ StepQuiet

SpecSupervisor == InitSupervisor /\ [][SupervisorNext]_vars

SpecConcurrentStarts == InitSupervisor /\ [][ConcurrentStartsNext]_vars

\* An OpenSERPClient shared by concurrent search_products callers.
InitClient ==
    /\ ClientInit
    /\ PoolInit
    /\ SearchQuiet
    /\ DedupQuiet
    /\ CacheQuiet
    /\ SupervisorQuiet
    /\ PipelineQuiet
    /\ RankQuiet
    /\ PrefilterQuiet
    /\ VerifyQuiet
    /\ StepQuiet

SpecClient == InitClient /\ [][ClientNext]_vars

\* One _search_custom_pipeline call.
InitPipeline ==
    /\ PipelineInit
    /\ PoolInit
    /\ SearchQuiet
    /\ DedupQuiet
    /\ CacheQuiet
    /\ ClientQuiet
    /\ SupervisorQuiet
    /\ RankQuiet
    /\ PrefilterQuiet
    /\ VerifyQuiet
    /\ StepQuiet

SpecPipeline == InitPipeline /\ [][PipelineNext]_vars

\* _rank_products applied to one pair of candidates.
InitRank ==
    /\ RankInit
    /\ PoolInit
    /\ SearchQuiet
    /\ DedupQuiet
    /\ CacheQuiet
    /\ ClientQuiet
    /\ PipelineQuiet
    /\ SupervisorQuiet
    /\ PrefilterQuiet
    /\ VerifyQuiet
    /\ StepQuiet

SpecRank == InitRank /\ [][RankNext]_vars

\* _rank_products applied to two products of different sources.
InitRankTies ==
    /\ RankTiesInit
    /\ PoolInit
    /\ SearchQuiet
    /\ DedupQuiet
    /\ CacheQuiet
    /\ ClientQuiet
    /\ PipelineQuiet
    /\ SupervisorQuiet
    /\ PrefilterQuiet
    /\ VerifyQuiet
    /\ StepQuiet

SpecRankTies == InitRankTies /\ [][RankNext]_vars

\* HTTPPreFilter.filter_batch on one candidate.
InitPrefilter ==
    /\ PrefilterInit
    /\ PoolInit
    /\ SearchQuiet
    /\ DedupQuiet
    /\ CacheQuiet
    /\ ClientQuiet
    /\ PipelineQuiet
    /\ RankQuiet
    /\ SupervisorQuiet
    /\ VerifyQuiet
    /\ StepQuiet

SpecPrefilter == InitPrefilter /\ [][PrefilterNext]_vars

\* One verify_product_availability call.
InitVerify ==
    /\ VerifyInit
    /\ PoolInit
    /\ SearchQuiet
    /\ DedupQuiet
    /\ CacheQuiet
    /\ ClientQuiet
    /\ PipelineQuiet
    /\ PrefilterQuiet
    /\ RankQuiet
    /\ SupervisorQuiet
    /\ StepQuiet

SpecVerify == InitVerify /\ [][VerifyNext]_vars

\* The verification step of search_multi_source on lists around the limit.
InitStep ==
    /\ StepInit
    /\ PoolInit
    /\ SearchQuiet
    /\ DedupQuiet
    /\ CacheQuiet
    /\ ClientQuiet
    /\ PipelineQuiet
    /\ PrefilterQuiet
    /\ RankQuiet
    /\ SupervisorQuiet
    /\ VerifyQuiet

SpecVerificationStep == InitStep /\ [][StepNext]_vars


(***************************************************************************)
(* Claims about the browser pool (checked under SpecPool).                 *)
(***************************************************************************)
\* Contexts of the ContextPool at position p that are leased.
LeasedOn(p) == {c \in leased : c[1] = p}

\* C1: in every reachable state at most pool_size * contexts_per_browser
\* contexts are leased, at most contexts_per_browser of any one browser, and
\* a caller that is past acquire_context holds a context that really was
\* taken from a queue (acquire under full load waits, it does not fail or
\* hand out something else).
C1_PoolCapacity ==
    /\ Cardinality(leased) <= PoolSize * ContextsPerBrowser
    /\ \A p \in 1..Len(context_pools) : Cardinality(LeasedOn(p)) <= ContextsPerBrowser
    /\ \A c \in leased : c[2] \in 1..ContextsPerBrowser
    /\ \A t \in Tasks : pc[t] \in {"verifying", "release"} =>
                            context[t] # NoContext /\ context[t] \in leased

\* C1 witness: full load (every context of the pool is held by a caller)
\* while another caller waits inside acquire_context.
C1_FullLoadWaiting ==
    /\ Cardinality(leased) = PoolSize * ContextsPerBrowser
    /\ \A c \in leased : \E t \in Tasks : context[t] = c
    /\ \E t \in Tasks : pc[t] = "waiting"

\* C2: a context is held by at most one caller between acquire and
\* release, and a held context is in no queue.
C2_ExclusiveLease ==
    /\ \A t1, t2 \in Tasks :
         (t1 # t2 /\ context[t1] # NoContext) => context[t1] # context[t2]
    /\ \A t \in Tasks : \A p \in 1..Len(context_pools) :
         context[t] # NoContext =>
            \A i \in 1..Len(context_pools[p]) : context_pools[p][i] # context[t]

\* C2 witness: two verifications run concurrently, each holding a context.
C2_TwoHolders ==
    \E t1, t2 \in Tasks :
        /\ t1 # t2
        /\ pc[t1] = "verifying" /\ pc[t2] = "verifying"
        /\ context[t1] # NoContext /\ context[t2] # NoContext

\* C3 (as claimed): once batch_verify_products has returned, no context is
\* still leased: every acquired context went back to its queue.
C3_AllReleasedAfterBatch ==
    batch_pc = "returned" => leased = {}

\* C19 (as claimed): a caller of acquire_context waits only while no
\* context is free: a caller that needs a release to go on (it waits on an
\* empty queue) finds every queue of the pool empty.
C19_WaitsOnlyWhenNoneFree ==
    \A t \in Tasks :
        (pc[t] = "waiting" /\ context_pools[browser_index[t] + 1] = <<>>)
            => \A b \in DOMAIN context_pools : context_pools[b] = <<>>

\* C25 (as claimed): under fair scheduling, with every verification attempt
\* ending, each task of a batch gets past acquire_context and the
\* batch_verify_products call returns.
C25_BatchTerminates ==
    /\ \A t \in Tasks : (pc[t] = "start") ~> (pc[t] = "verifying")
    /\ (batch_pc = "running") ~> (batch_pc = "returned")

\* C21 (as claimed): pool construction is idempotent under concurrency: an
\* initialized pool holds the pool_size browsers and context pools that its
\* initialization built, and no later or concurrent get_browser_pool,
\* initialize or acquire_context call launches a browser or builds a
\* context pool on top of them.
C21_ConstructedOnce ==
    [][initialized => /\ browsers' = browsers
                      /\ Len(context_pools') = Len(context_pools)]_vars

\* Contexts of the ContextPool at position p that a caller holds.
HeldOn(p) == {t \in Tasks : context[t] # NoContext /\ context[t][1] = p}

\* C36 (as claimed): once the pool is initialised, for each browser the
\* contexts in its queue plus the contexts its callers hold number exactly
\* contexts_per_browser, whatever happens inside release_context.
C36_NoContextLost ==
    initialized =>
        \A p \in 1..Len(context_pools) :
            Len(context_pools[p]) + Cardinality(HeldOn(p)) = ContextsPerBrowser

\* C37 (as claimed): a pool that is initialised, also one initialised again
\* after close(), has exactly pool_size browsers and context pools, and its
\* callers get contexts of live browsers: while no context is out of its
\* queue, no caller of acquire_context waits on an empty queue.
C37_ReinitializedPoolIsWhole ==
    initialized =>
        /\ browsers = PoolSize
        /\ Len(context_pools) = PoolSize
        /\ leased = {} =>
              \A t \in Tasks :
                  pc[t] = "waiting" => context_pools[browser_index[t] + 1] # <<>>

(***************************************************************************)
(* Claims about search_multi_source (checked under SpecSearch).            *)
(***************************************************************************)
\* C4: while a call's tasks run, no task belongs to a source that was in
\* _failed_sources when the call started, and no step ever removes a source
\* from _failed_sources.
C4_FailedSourceStaysDisabled ==
    /\ [](call_pc = "gather" => started \cap failed_sources = {})
    /\ [][failed_sources \subseteq failed_sources']_vars

\* A later call runs with Oxylabs disabled and SearchAPI started in its place.
C4_LaterCallSkipsSource ==
    /\ call_pc = "gather"
    /\ "oxylabs" \in enabled
    /\ "oxylabs" \in failed_sources
    /\ "oxylabs" \notin started
    /\ "searchapi" \in started

\* C5: no call ends with an exception, whatever the source tasks did; every
\* returned product comes from the list of a source that succeeded, and
\* with verification off, no allowlist and k not limiting, every URL whose
\* candidates are all within hard_cap is in the returned list.
C5_SourceFailureNeverFailsCall ==
    /\ [](~raised)
    /\ [][(call_pc = "gather" /\ call_pc' = "returned") =>
            /\ \A i \in DOMAIN returned' :
                 \E s \in started : /\ results[s].kind = "list"
                                    /\ returned'[i] \in Range(results[s].products)
            /\ (/\ ~enable_link_verification
                /\ call_args.retailers_allowlist = NoAllowlist
                /\ call_args.k >= Len(FlattenResults(results, 1)))
               => \A p \in Range(FlattenResults(results, 1)) :
                    (\A q \in Range(FlattenResults(results, 1)) :
                        q.url = p.url => (q.price = NoPrice \/ q.price <= Budget.hard_cap))
                    => \E i \in DOMAIN returned' : returned'[i].url = p.url
         ]_vars

\* A call has returned products although one of its source tasks raised.
C5_ReturnedDespiteException ==
    /\ call_pc = "returned"
    /\ ~raised
    /\ \E s \in started : results[s].kind = "exc"
    /\ returned # <<>>

\* C6: when a call has returned, every task it started had settled (returned
\* or raised) before the merge; a step in which one task raises leaves the
\* call in gather and the results of the other tasks as they were.
C6_MergeAfterAllSettled ==
    /\ [](call_pc = "returned" => \A s \in started : results[s].kind \in {"list", "exc"})
    /\ [][\A s \in Sources :
            (results[s].kind = "pending" /\ results'[s].kind = "exc")
            => /\ call_pc' = "gather"
               /\ \A t \in Sources \ {s} : results'[t] = results[t]
         ]_vars

\* One task has raised while a sibling is still running and the call waits.
C6_SiblingStillRunning ==
    /\ call_pc = "gather"
    /\ \E s, t \in started : results[s].kind = "exc" /\ results[t].kind = "pending"

C9_InStockAndRanked ==
    call_pc = "returned" =>
        /\ \A i \in DOMAIN returned : returned[i].availability_status # "out_of_stock"
        /\ \A i, j \in DOMAIN returned :
             i < j => RankScore(returned[i], Budget) >= RankScore(returned[j], Budget)

\* C10 (as claimed): no call sends to the verifier a URL that an earlier
\* call verified successfully (the cache entries of the model never expire).
C10_VerifiedOncePerUrl ==
    call_pc = "returned" => reverified = {}

\* C18 (as claimed): when candidates were found and verification left
\* none, the call goes on with the k most relevant unverified candidates,
\* and no product it then returns is a record that a call returns for a
\* verified product: the caller can tell the two apart.
C18_FallbackIsMarked ==
    (call_pc = "returned" /\ path = "fallback") =>
        Range(returned) \cap returned_verified = {}

(***************************************************************************)
(* Claims about _deduplicate_products (checked under SpecDedup).           *)
(***************************************************************************)
\* C7 (as claimed): when the input holds two products with the same URL and
\* different relevance scores, the result holds exactly one product for that
\* URL and its relevance score is the higher one, whichever came first.
C7_DedupKeepsHigherRelevance ==
    dedup_pc = "done" =>
        \A i, j \in DOMAIN dedup_in :
            (/\ i # j
             /\ dedup_in[i].url = dedup_in[j].url
             /\ Rel(dedup_in[i]) > Rel(dedup_in[j]))
            => /\ Cardinality({n \in DOMAIN dedup_out :
                                  Lower(dedup_out[n].url) = Lower(dedup_in[i].url)}) = 1
               /\ \A n \in DOMAIN dedup_out :
                    Lower(dedup_out[n].url) = Lower(dedup_in[i].url)
                    => Rel(dedup_out[n]) >= Rel(dedup_in[i])

(***************************************************************************)
(* Claims about LinkVerificationCache (checked under SpecCache).           *)
(***************************************************************************)
\* C11: a read never returns a product for a URL whose entry has outlived
\* the TTL it was written with; for such a URL the read reports a miss.
C11_ExpiredNeverReturned ==
    \A i \in DOMAIN last_read.products : last_read.products[i].url \notin expired

\* A connected cache has just been read for a URL whose entry had expired,
\* and the read came back without a product for it.
C11_ReadAfterExpiry ==
    /\ cache_client
    /\ \E u \in expired :
         /\ u \in Range(last_read.urls)
         /\ \A i \in DOMAIN last_read.products : last_read.products[i].url # u

C23_ToVerify(client, entries) ==
    LET all_products == FlattenResults(results, 1)
    IN ProductsToVerify(all_products, enable_link_verification /\ all_products # <<>>,
                        client, entries)

\* What that call returns for the verdicts `valid` of the verifier.
C23_Returns(valid, client, entries) ==
    LET all_products == FlattenResults(results, 1)
    IN RankedTopK(Candidates(all_products, enable_link_verification /\ all_products # <<>>,
                             valid, call_args.k, client, entries),
                  call_args)

\* C23: a search_multi_source call whose cache has no client returns, for
\* the same source results and the same verdicts of the verifier, what it
\* returns with a connected cache that holds nothing; without a client the
\* cache read finds nothing and the cache write stores nothing.
C23_NoClientLikeEmptyCache ==
    (call_pc = "gather" /\ GatherDone(results, started) /\ ~cache_client) =>
        /\ C23_ToVerify(cache_client, cache) = C23_ToVerify(TRUE, EmptyCache)
        /\ \A valid \in [DOMAIN C23_ToVerify(cache_client, cache) -> BOOLEAN] :
             /\ C23_Returns(valid, cache_client, cache) = C23_Returns(valid, TRUE, EmptyCache)
             /\ cache_batch(VerifiedProducts(C23_ToVerify(cache_client, cache), valid),
                            cache_client, cache) = cache
        /\ CachedProducts(FlattenResults(results, 1), TRUE, cache_client, cache) = <<>>

\* A call without a cache client has returned products it verified.
C23_VerifiedWithoutClient ==
    /\ call_pc = "returned"
    /\ ~cache_client
    /\ path = "verified"
    /\ returned # <<>>

\* C39 (as claimed): a search_multi_source call with a connected cache ends
\* without raising whether or not Redis answers get_batch and cache_batch,
\* and after a failed read it returns what it returns, for the same source
\* results, with a cache that holds nothing.
C39_CacheFailureIsAMiss ==
    [][(call_pc = "gather" /\ GatherDone(results, started) /\ call_pc' = "returned"
           /\ cache_client)
         => /\ ~raised'
            /\ path' = "cache_error" =>
                 \E valid \in [DOMAIN C23_ToVerify(TRUE, EmptyCache) -> BOOLEAN] :
                     returned' = C23_Returns(valid, TRUE, EmptyCache)]_vars

(***************************************************************************)
(* Claims about OpenSERPManager.                                           *)
(***************************************************************************)
\* A health check of the monitor has just failed.
HealthCheckFailed == consecutive_failures'[1] = consecutive_failures[1] + 1

\* C12: the monitor makes at most max_restart_attempts restart attempts in
\* a row without a start confirmed ready in between; the failed health check
\* that follows them clears is_running and ends the monitor loop, and from
\* then on the monitor attempts no restart.
C12_BoundedRestartsThenGiveUp ==
    /\ [](attempts <= max_restart_attempts)
    /\ [][(HealthCheckFailed /\ attempts = max_restart_attempts)
            => (~is_running' /\ monitor_pc'[1] = "done")]_vars
    /\ [](gave_up => (~is_running /\ monitor_pc[1] = "done"))
    /\ [][gave_up => attempts' \in {attempts, 0}]_vars

C12_GaveUpAfterBudget ==
    /\ gave_up
    /\ attempts = max_restart_attempts
    /\ ~is_running
    /\ monitor_pc[1] = "done"
    /\ process = "none"

\* C13: when the process has exited under a running supervisor whose restart
\* budget is not used up, the next health check fails and, in the same
\* iteration of the monitor, counts a restart, kills the process and goes on
\* to start a new one; when that one is confirmed ready, is_running is true
\* and the monitor is back in its loop.
C13_DeathRestartsInSameIteration ==
    /\ [][(MonitorCheck(1) /\ is_running /\ process = "dead"
              /\ restart_count < max_restart_attempts)
            => /\ HealthCheckFailed
               /\ restart_count' = restart_count + 1
               /\ process' = "none"
               /\ monitor_pc'[1] = "restart_wait"
               /\ is_running']_vars
    /\ [][(MonitorReady(1) /\ process = "serving")
            => (is_running' /\ monitor_pc'[1] = "sleep" /\ process' = "serving")]_vars

C13_RecoveredFromDeath ==
    /\ died
    /\ is_running
    /\ process = "serving"
    /\ monitor_pc[1] = "sleep"
    /\ restart_count = 0

\* C30: restart_count goes back to zero only in a step where the readiness
\* poll of a start or of a restart has found the server ready; a health check
\* that passes, a restart whose process could not be spawned and a restart
\* that was not ready in time all leave the counter as it was.
C30_ResetOnlyWhenConfirmedReady ==
    /\ [][(restart_count # 0 /\ restart_count' = 0)
            => /\ start_pc[1] = "ready_poll" \/ monitor_pc[1] = "ready_poll"
               /\ process = "serving"
               /\ is_running']_vars
    /\ [][(MonitorCheck(1) /\ check_health(is_running, process, process))
            => restart_count' = restart_count]_vars
    /\ [][((MonitorSpawn(1) /\ monitor_pc'[1] = "sleep") \/ (MonitorReady(1) /\ process # "serving"))
            => restart_count' = restart_count]_vars

C30_TwoFailedRestartsCounted ==
    /\ restart_count = 2
    /\ consecutive_failures[1] = 2
    /\ is_running
    /\ monitor_pc[1] = "sleep"
    /\ process = "none"

\* Monitor tasks that have been created and have not finished.
UnfinishedMonitors == {m \in Monitors : monitor_pc[m] \notin {"none", "done"}}

\* C31 (as claimed): from the return of stop() until start() is called
\* again, is_running is false, every monitor task has finished, no process
\* the supervisor spawned is alive, and so no restart is under way; this
\* covers a stop() called at any point of a restart by the monitor.
C31_StoppedStaysStopped ==
    stopped =>
        /\ ~is_running
        /\ UnfinishedMonitors = {}
        /\ process \notin Living
        /\ orphan \notin Living

\* C38 (as claimed): at any time at most one process spawned by the
\* supervisor is alive and at most one monitor task is unfinished, however
\* start() calls overlap.
C38_OneProcessOneMonitor ==
    /\ ~(process \in Living /\ orphan \in Living)
    /\ Cardinality(UnfinishedMonitors) <= 1

(***************************************************************************)
(* Claims about OpenSERPClient.                                            *)
(***************************************************************************)
\* C14: with max_concurrent_requests = 1 at most one search request is in
\* flight at any time, whatever the number of callers and their retries.
C14_OneRequestInFlight ==
    Cardinality(InFlight) <= max_concurrent_requests

C14_RetryInFlightOthersWaiting ==
    /\ \E c \in Callers : client_pc[c] = "request" /\ client_attempt[c] > 0
    /\ Cardinality({c \in Callers : client_pc[c] = "acquire"}) >= 2

C29_RequestsSpacedByDelay ==
    [][\A c \in Callers :
          (client_pc[c] # "request" /\ client_pc'[c] = "request")
              => since_last >= request_delay]_vars

\* A retried attempt that came too soon after the previous request has slept
\* out the rest of the delay and is about to be sent, with a caller waiting.
C29_RetrySleptOutDelay ==
    \E c, d \in Callers :
        /\ client_pc[c] = "delay" /\ sleep_left[c] = 0 /\ client_attempt[c] > 0
        /\ since_last = request_delay
        /\ client_pc[d] = "acquire"

(***************************************************************************)
(* Claims about _search_custom_pipeline (checked under SpecPipeline).      *)
(***************************************************************************)
\* The pre-filter's grounds for dropping a candidate, read off its page.
RejectedByPreFilter(page) ==
    \/ page.http_status # 200
    \/ ~page.in_stock
    \/ required_brand # NoBrand /\ page.brand \notin {NoBrand, required_brand}
    \/ page.price # NoPrice /\ page.price > pipe_max_price

\* C15: no URL of the batch handed to the API connector, and none of the
\* batch handed to the browser verifier, stems from a candidate the HTTP
\* pre-filter dropped, and no dropped candidate's URL is in either batch.
C15_RejectedNeverForwarded ==
    /\ \A i \in DOMAIN api_from : ~RejectedByPreFilter(pipe_candidates[api_from[i]])
    /\ \A i \in DOMAIN browser_from : ~RejectedByPreFilter(pipe_candidates[browser_from[i]])
    /\ \A c \in DOMAIN pipe_candidates :
         RejectedByPreFilter(pipe_candidates[c]) =>
             pipe_candidates[c].pdp_url \notin Range(api_urls) \cup Range(browser_urls)

C15_ForwardedWithoutRejected ==
    /\ pipe_pc = "stage_d"
    /\ api_urls # <<>>
    /\ browser_urls # <<>>
    /\ \E c \in DOMAIN pipe_candidates : RejectedByPreFilter(pipe_candidates[c])

\* C16 (as claimed): the batch handed to the browser verifier holds no
\* candidate for which the API connector returned a result, available for
\* sale or not.
C16_BrowserSkipsApiAnswered ==
    \A i \in DOMAIN browser_from :
        \A j \in DOMAIN api_verified : api_verified[j].from # browser_from[i]

C20_SoftCapNotBelowUnitAbove ==
    rank_pc = "ranked" =>
        \A i, j \in DOMAIN rank_in :
            (rank_in[i].price = rank_budget.soft_cap
                /\ rank_in[j].price = rank_budget.soft_cap + 1)
            => rank_scores[i] >= rank_scores[j]

C20_UnitAboveAtHardCap ==
    /\ rank_pc = "ranked"
    /\ rank_budget.hard_cap = rank_budget.soft_cap + 1
    /\ rank_in[1].price = rank_budget.hard_cap
    /\ rank_out[1].price = rank_budget.soft_cap

\* C26 (as claimed): of two products with equal rank scores the one whose
\* source has the higher source priority comes first in the ranking,
\* whichever of the two came first in the input.
C26_TieBrokenBySourcePriority ==
    (rank_pc = "ranked" /\ rank_scores[1] = rank_scores[2]) =>
        SourceScore(rank_out[1].source) >= SourceScore(rank_out[2].source)

\* The price-fit component of the score _rank_products gave the i-th input
\* product, in thousandths: the score less its relevance, source and
\* availability terms, over the weight.
PriceFitOf(i) ==
    (rank_scores[i] - Rel(rank_in[i]) * 600 - SourceScore(rank_in[i].source) * 40
        - (IF InStock(rank_in[i]) THEN 3000 ELSE 0)) \div 5

\* C27 (as claimed): the price-fit component is at its maximum for every
\* price at or below soft_cap, decreases linearly between soft_cap and
\* hard_cap, and is zero at hard_cap and above.
C27_FullBelowSoftZeroFromHard ==
    rank_pc = "ranked" =>
        \A i \in DOMAIN rank_in :
            LET price == rank_in[i].price
                soft_cap == rank_budget.soft_cap
                hard_cap == rank_budget.hard_cap
            IN price # NoPrice =>
                 /\ price <= soft_cap => PriceFitOf(i) = 1000
                 /\ price >= hard_cap => PriceFitOf(i) = 0
                 /\ (soft_cap < price /\ price < hard_cap) =>
                        PriceFitOf(i) * (hard_cap - soft_cap) = 1000 * (hard_cap - price)

\* C27 (amended): the price-fit component is at its maximum at price =
\* soft_cap and between 0.8 and that maximum for every lower price; between
\* soft_cap and hard_cap it decreases linearly, from 0.8 to 0.2 at price =
\* hard_cap; it is zero above hard_cap.
C27_PeakAtSoftCapFloorAtHardCap ==
    rank_pc = "ranked" =>
        \A i \in DOMAIN rank_in :
            LET price == rank_in[i].price
                soft_cap == rank_budget.soft_cap
                hard_cap == rank_budget.hard_cap
            IN price # NoPrice =>
                 /\ PriceFitOf(i) <= 1000
                 /\ price = soft_cap => PriceFitOf(i) = 1000
                 /\ price < soft_cap => (800 <= PriceFitOf(i) /\ PriceFitOf(i) < 1000)
                 /\ (soft_cap < price /\ price <= hard_cap) =>
                        PriceFitOf(i) * (hard_cap - soft_cap)
                            = 800 * (hard_cap - soft_cap) - 600 * (price - soft_cap)
                 /\ price = hard_cap => PriceFitOf(i) = 200
                 /\ price > hard_cap => PriceFitOf(i) = 0

\* A product priced below the soft cap and one priced at the hard cap have
\* been scored.
C27_BelowSoftAndAtHard ==
    /\ rank_pc = "ranked"
    /\ rank_in[1].price # NoPrice /\ rank_in[1].price < rank_budget.soft_cap
    /\ rank_in[2].price = rank_budget.hard_cap
    /\ rank_budget.hard_cap > rank_budget.soft_cap + 1

(***************************************************************************)
(* Claims about HTTPPreFilter (checked under SpecPrefilter).               *)
(***************************************************************************)
\* The availability the pre-filter parsed names one of its out-of-stock terms.
ExplicitlyOutOfStock(d) ==
    /\ d.availability # None
    /\ \E oos_term \in AVAILABILITY_OUT_OF_STOCK : Contains(oos_term, d.availability)

\* A caller filter of filter_batch excludes the candidate.
ExcludedByCaller(d) ==
    BrandMismatch(d, filter_call.required_brand) \/ PriceTooHigh(d, filter_call.max_price)

\* C32: filter_batch leaves a candidate out only if its HTTP status is not
\* 200, its parsed availability is explicitly out of stock, or a caller
\* filter (required brand, max price) excludes it; a candidate whose page
\* answers 200 and states no availability is returned, and a candidate whose
\* availability is explicitly out of stock is never returned.
C32_RejectsOnlyDeadOrOutOfStock ==
    LET details == filter_call.details
    IN  filter_call.pc = "filtered" =>
            /\ ~filter_call.passed =>
                  \/ details.http_status # 200
                  \/ ExplicitlyOutOfStock(details)
                  \/ ExcludedByCaller(details)
            /\ (details.http_status = 200 /\ details.availability = None
                   /\ ~ExcludedByCaller(details)) => filter_call.passed
            /\ ExplicitlyOutOfStock(details) => ~filter_call.passed

(***************************************************************************)
(* Claims about the verification agent and the retailer patterns (checked  *)
(* under SpecVerify).                                                      *)
(***************************************************************************)
\* The page text contains an out-of-stock phrase of the matched retailer's
\* pattern or of the universal pattern.
SaysOutOfStock ==
    \/ is_out_of_stock_text(verify_call.site.page_text,
                            verify_call.retailer_pattern.out_of_stock_patterns)
    \/ is_out_of_stock_text(verify_call.site.page_text,
                            UNIVERSAL_PATTERNS.out_of_stock_patterns)

\* C33: verify_product_availability reports is_valid = false for every page
\* whose text contains an out-of-stock phrase of the matched retailer's
\* pattern or of the universal pattern set, add-to-cart control or not.
C33_OutOfStockTextIsInvalid ==
    (verify_call.pc = "done" /\ SaysOutOfStock) => ~verify_call.result.is_valid

\* C34: with an expected price, the result is valid only if a price was
\* read from the page and it differs from the expected price by at most
\* 10% of the expected price; without one (None, or the 0.0 that sources
\* use for an unknown price) validity is add-to-cart and in-stock alone.
C34_PriceWithinTenPercent ==
    LET result == verify_call.result
        expected == verify_call.expected_price
    IN  verify_call.pc = "done" =>
            /\ (Truthy(expected) /\ result.is_valid) =>
                  /\ Truthy(result.actual_price)
                  /\ result.actual_price =
                         extract_price(verify_call.site,
                                       get_all_selectors(verify_call.retailer_pattern, "price"))
                  /\ 10 * (result.actual_price - expected) <= expected
                  /\ 10 * (expected - result.actual_price) <= expected
            /\ ~Truthy(expected) =>
                  result.is_valid = (result.has_add_to_cart /\ result.is_in_stock)

\* A product expected at 100.00 was found at 110.00 and reported valid.
C34_ValidAtTheTolerance ==
    /\ verify_call.pc = "done"
    /\ verify_call.expected_price = 10000
    /\ verify_call.result.actual_price = 11000
    /\ verify_call.result.is_valid

\* The attribute of a RetailerPattern that holds the patterns of a type.
PatternField(selector_type) ==
    IF selector_type = "out_of_stock" THEN "out_of_stock_patterns"
    ELSE selector_type \o "_selectors"

\* The retailer's patterns followed by the universal ones not among them.
SpecificThenUniversal(specific, universal) ==
    specific \o SelectSeq(universal, LAMBDA u : \A i \in DOMAIN specific : specific[i] # u)

\* C35: detect_retailer returns the universal pattern when no known domain
\* pattern occurs in the URL, and for each pattern type (add-to-cart,
\* out-of-stock, price, product title) get_all_selectors returns the
\* retailer's patterns followed by the universal patterns not already
\* present, without duplicates.
C35_FallbackAndCombinedPatterns ==
    verify_call.pc # "input" =>
        /\ (\A r \in DOMAIN RETAILER_PATTERNS :
                ~Matches(RETAILER_PATTERNS[r], lower(verify_call.url)))
              => verify_call.retailer_pattern = UNIVERSAL_PATTERNS
        /\ \A selector_type \in {"add_to_cart", "out_of_stock", "price", "product_title"} :
              LET got == get_all_selectors(verify_call.retailer_pattern, selector_type)
              IN  /\ got = SpecificThenUniversal(
                               verify_call.retailer_pattern[PatternField(selector_type)],
                               UNIVERSAL_PATTERNS[PatternField(selector_type)])
                  /\ \A i, j \in DOMAIN got : i # j => got[i] # got[j]

(***************************************************************************)
(* Claims about the verification step on long lists (checked under         *)
(* SpecVerificationStep).                                                  *)
(***************************************************************************)
\* The candidates get_batch has no entry for.
StepUncached ==
    {p \in Range(search_step.all_products) : search_step.cache[p.url] = NoEntry}

\* The products get_batch read for the candidates.
StepCacheHits ==
    {Deserialize(search_step.cache[p.url].data) :
        p \in {q \in Range(search_step.all_products) : search_step.cache[q.url] # NoEntry}}

\* The products the verifier found valid in this call.
StepPassed ==
    {search_step.products_to_verify[i] : i \in {j \in DOMAIN search_step.valid : search_step.valid[j]}}

\* C40: with link verification enabled and the fallback not taken, every
\* product search_multi_source returns is a cache hit or passed browser
\* verification during this call; at most 30 uncached candidates are
\* verified, none of them less relevant than an uncached candidate that is
\* not, and no uncached candidate that was not verified is returned.
C40_OnlyVerifiedOrCachedReturned ==
    LET products_to_verify == search_step.products_to_verify
    IN  (search_step.pc = "returned" /\ search_step.path \in {"cache", "verified"}) =>
            /\ \A p \in Range(search_step.returned) : p \in StepCacheHits \/ p \in StepPassed
            /\ Len(products_to_verify) <= VerifyLimit
            /\ Range(products_to_verify) \subseteq StepUncached
            /\ \A u \in StepUncached \ Range(products_to_verify) :
                  /\ Len(products_to_verify) = VerifyLimit
                  /\ \A v \in Range(products_to_verify) : Rel(v) >= Rel(u)
                  /\ u \notin Range(search_step.returned)

\* More than 30 candidates were uncached; the first of the list, the least
\* relevant, was not verified although the verifier found every product it
\* was given valid, and the last of the list was verified and returned.
C40_LeastRelevantLeftOut ==
    /\ search_step.pc = "returned"
    /\ search_step.path = "verified"
    /\ Cardinality(StepUncached) > VerifyLimit
    /\ search_step.all_products[1] \in StepUncached \ Range(search_step.products_to_verify)
    /\ \A i \in DOMAIN search_step.valid : search_step.valid[i]
    /\ search_step.all_products[Len(search_step.all_products)]
           \in Range(search_step.returned)

=============================================================================
